---- MODULE Spec2Model ----
(***************************************************************************)
(* Verification model of the handy reactor library (C++ remake).           *)
(*                                                                         *)
(* The module holds several specifications over one set of variables; the  *)
(* variables a specification does not use stay at their initial value.     *)
(*   SpecSQ    SafeQueue<Task> used directly by producer, consumer and     *)
(*             exit threads (thread_pool.cpp, SafeQueue)                   *)
(*   SpecTP    ThreadPool: addTask callers, workers, exit()                *)
(*   SpecEB    EventBase: safeCall, the task queue and the wakeup pipe     *)
(*   SpecTM    EventBase: timers (runAt, cancel, the firing pass)          *)
(*   SpecConn  TcpConn: one connection on one event loop                   *)
(*   SpecLoop  EventBase: loop(), exit() and the final drain               *)
(*   SpecCodec LineCodec and LengthCodec: encode, the decode loop, clone   *)
(*   SpecBuf   Buffer: append, consume, makeRoom, addSize, absorb, clear   *)
(*   SpecIdle  EventBase: idle handles and the periodic callIdles          *)
(*   SpecHSHA  HSHA: one connection, its requests and their responses      *)
(*   SpecPL    ThreadPool: the owner's start(), join() and destructor      *)
(*   SpecCh    Channel and PollerEpoll: close, destruction, teardown       *)
(*   SpecCB    TcpConn: the locks held where user callbacks are invoked    *)
(*   SpecRd    TcpConn: the read loop of a CONNECTED connection            *)
(*   SpecSend  TcpConn: send, the output buffer and write interest         *)
(*   SpecPoll  PollerEpoll: batches of ready events and removeChannel      *)
(*   SpecMR    Buffer: makeRoom() between appends and consumes             *)
(*   SpecIX    EventBase: idle handles across the exit of the loop         *)
(***************************************************************************)
EXTENDS Integers, Sequences, FiniteSets, TLC

\* ------------------------------------------------------------------ bounds
NumConsumers == 2
NumProducers == 2
MaxTasks == 3
MaxCapacity == 2
MaxExitCalls == 2
PipeCapacity == 2
MaxTimers == 2
MaxTime == 3
MaxInterval == 1
MaxCycles == 2
MaxFrames == 2
MaxFrameLen == 2
NumBuffers == 2
MaxLen == 2
MaxEnd == 6
NumIdleConns == 2
MaxIdleTimeout == 2
MaxIdleTime == 4000
MaxRequests == 2
MaxOwnerCalls == 1
MaxOwnerTasks == 1
NumChannels == 3
MaxReads == 3
MaxSends == 3
MaxSendLen == 2

\* ---------------------------------------------------------- program values
\* SafeQueue::kWaitInfinite is numeric_limits<int>::max(); the model only
\* distinguishes 0 (non-blocking), a finite positive wait and the infinite one.
kWaitInfinite == 2147483647
WaitTimes == {0, 10, kWaitInfinite}

Consumers == 1..NumConsumers
Producers == 1..NumProducers
TaskIds == 1..MaxTasks
\* the mutexes of a TcpConn
Locks == {"m_stateMutex", "m_callBacksMutex", "m_ChannelMutex"}
\* channel 1 is the wakeup channel of EventsImp::init, the others belong to
\* connections
Channels == 1..NumChannels
WakeupCh == 1
\* the tasks that throw when they are invoked
ThrowingTasks == {1}
Capacities == 0..MaxCapacity

\* the loop thread is the one consumer of EventsImp::m_tasks
LoopThread == 1
\* sizeof(buf) of the wakeup handler's read
kWakeupBuf == 1024
\* m_nextTimeout_ms when there is no timer: 1 << 30
kNoTimer == 1073741824
\* registrations made through runAt, deadlines and intervals given to it
TimerIx == 1..MaxTimers
Deadlines == 1..MaxTime
Intervals == 0..MaxInterval
\* TimerId(): the invalid id
InvalidId == <<0, 0>>
\* end() of m_timers
NoEntry == [key |-> InvalidId, kind |-> "none", tr |-> InvalidId, who |-> 0]

\* codecs: '\n', '\r' and the end-of-transmission byte 0x04 of LineCodec
LF == 10
CR == 13
EOT == 4
\* LengthCodec::kMagic "mBdT", kHeaderLen, kDefaultMaxMsgLen (1024 * 1024)
kMagic == <<109, 66, 100, 84>>
kHeaderLen == 8
kDefaultMaxMsgLen == 1048576
\* enum class DecodeErr { kInvalidMagic = -1, kInvalidLength }: the second
\* enumerator is the first plus one
kInvalidMagic == -1
kInvalidLength == kInvalidMagic + 1
\* INT32_MAX
kInt32Max == 2147483647
CodecTypes == {"line", "length"}
\* bytes a message is made of, the messages handed to encode, the limits
\* given to setMaxMsgLen (0 is refused) and the length fields of hand-made
\* headers
FrameBytes == {97, LF, CR, EOT}
Frames == UNION {[1..n -> FrameBytes] : n \in 0..MaxFrameLen}
MaxMsgLens == 0..MaxFrameLen
ProbeLens == {-kInt32Max - 1, -10, -1, 0, 1, MaxFrameLen, MaxFrameLen + 1,
              kDefaultMaxMsgLen, kDefaultMaxMsgLen + 1, kInt32Max}
\* no tryDecode call on a hand-made header, no clone() call
NoProbe == [called |-> FALSE, magic |-> FALSE, len |-> 0, have |-> 0, max |-> 0,
            ret |-> 0]
NoClone == [new |-> [type |-> "none", max |-> 0], of |-> [type |-> "none", max |-> 0]]

\* Buffer::m_exp of a new buffer, the values given to setExpectGrowSize, the
\* lengths given to append, consume, makeRoom and addSize
kDefaultExp == 512
\* the period of callIdles in milliseconds, the connections that register an
\* idle handle and the timeouts (seconds) they register with
kIdleCheck_ms == 1000
IdleConns == 1..NumIdleConns
IdleTimeouts == 1..MaxIdleTimeout
IdleInstants == {t \in {1000 * k + p : k \in 0..(MaxIdleTime \div 1000), p \in {0, 1, 999}} :
                    t <= MaxIdleTime}
Buffers == 1..NumBuffers
GrowSizes == {0, 6}
Lens == 0..MaxLen

\* no call of cancel
NoCancel == [who |-> 0, ret |-> "none", timers |-> {}, reps |-> {},
             next |-> 0, fired |-> 0, again |-> FALSE]

VARIABLES
    \* SafeQueue<T>
    m_items,        \* std::list<T> m_items, head first
    m_capacity,     \* const size_t m_capacity (0: unbounded)
    q_isExited,     \* SafeQueue::m_isExited
    mutex,          \* SafeQueue::m_mutex: 0 free, else the consumer holding it
    pc,             \* position of every consumer / worker thread
    waitArg,        \* waitTime_ms argument of the consumer's popWait call
    timedOut,       \* the consumer's wait_until deadline has passed
    lastPop,        \* the popWait call that returned last: wait time, result
                    \* and the value of m_isExited it returned under
    xpc,            \* position of the thread calling exit()
    exitCalls,      \* number of exit() calls started
    \* call history
    attempted,      \* task ids handed to push / addTask so far
    pushRet,        \* result of push / addTask per task id: "none", "true", "false"
    pushed,         \* tasks appended by push, in order
    popped,         \* tasks taken by popWait, in order
    \* ThreadPool
    p_isExited,     \* ThreadPool::m_isExited
    p_isStarted,    \* ThreadPool::m_isStarted
    apc,            \* position of every addTask caller
    atask,          \* task an addTask caller is adding
    curTask,        \* task a worker holds
    execCount,      \* number of times each task has been invoked
    ranBy,          \* the worker that invoked each task last, 0: none
    \* EventBase: safeCall and the wakeup pipe
    pipeBytes,      \* bytes written to m_wakeupFds[1] and not yet read
    scpc,           \* position of every caller of safeCall or exit
    scTask,         \* the task a safeCall caller has handed to push, 0 if none
    scDone,         \* tasks whose safeCall call has returned
    atLast,         \* the tasks accepted by a safeCall call that had
                    \* returned when the last loopOnce(0) of loop() began
    \* EventBase: timers
    now,            \* utils::timeMilli()
    m_exit,         \* EventsImp::m_exit
    m_timers,       \* std::map<TimerId, Task> m_timers, as a set of entries
    m_timerReps,    \* std::map<TimerId, TimerRepeatable> m_timerReps
    m_timerSeq,     \* EventsImp::m_timerSeq
    m_nextTimeout_ms, \* EventsImp::m_nextTimeout_ms
    tpc,            \* position of the loop thread in loop()
    passNow,        \* now_ms of the running handleTimeoutTimers
    it,             \* the iterator of handleTimeoutTimers: the entry it
                    \* points to, or NoEntry for end()
    itDangling,     \* the entry `it` points to has been erased
    tmSt,           \* per registration: "none", "live" or "refused"
    tmId,           \* per registration: the TimerId runAt returned
    tmAt,           \* per registration: timestamp_ms given to runAt
    tmIval,         \* per registration: interval_ms given to runAt
    tmFired,        \* per registration: number of invocations of its task
    tmCanc,         \* per registration: "no", or cancel(id) was first called
                    \* "early" (task not yet invoked) or "late"
    lastCancel,     \* the cancel call made in the step just taken: its
                    \* registration, the value returned and the timer
                    \* members at the call; NoCancel when the step made none
    \* TcpConn
    c_state,        \* TcpConn::m_state
    m_channel,      \* TcpConn::m_channel: "null", or the Channel it points
                    \* to is "open" (fd >= 0) or "closed" (fd = -1)
    chAlive,        \* Channel objects made for the connection, not deleted
    m_reconnectInterval_ms, \* TcpConn::m_reconnectInterval_ms
    m_connectTimeout_ms,    \* TcpConn::m_connectTimeout_ms
    m_connectedTime_ms,     \* TcpConn::m_connectedTime_ms
    reconnectAt,    \* the timestamp of the timer registered by _reconnect
    rx,             \* what the peer had sent when the read handler last ran
                    \* on the CONNECTED connection, "none" before
    timeoutArmed,   \* the handshake timer m_timeoutId is in m_timers
    reconnectArmed, \* the timer of _reconnect is in m_timers
    inReconnectSet, \* the connection is in EventsImp::m_reconnectConns
    closePosted,    \* the task of close() is in m_tasks
    cycle,          \* number of connect cycles started (attach calls)
    termCalls,      \* calls of m_stateCB from cleanup in the current cycle
    \* codecs
    cdType,         \* the codec in use: "line" (LineCodec) or "length" (LengthCodec)
    m_maxMsgLen,    \* LengthCodec::m_maxMsgLen
    cdBuf,          \* the bytes encode appended that the decode loop has not consumed
    cdSent,         \* the frames encode accepted, in order
    cdGot,          \* the frames the decode loop delivered, in order
    cdClosed,       \* the decode loop met a negative result and closed the channel
    cdRead,         \* the read callback has run since encode was last called
    cdProbe,        \* the last tryDecode call on a hand-made header: length, result
    cdClone,        \* the codec clone() returned last: type and maximum length
    \* Buffer
    buffers,        \* the fields m_b, m_e, m_cap and m_exp of every Buffer
    resv,           \* bytes the last makeRoom(len) reserved and no call used since
    \* EventBase: idle handles
    nowMs,          \* utils::timeMilli()
    m_idleEnabled,  \* EventsImp::m_idleEnabled
    m_idleConns,    \* EventsImp::m_idleConns: per timeout the list of nodes
    idleTimer,      \* the timestamp of the timer that runs callIdles next
    idleLog,        \* per connection: its timeout, what happened to its handle
                    \* last and when, and the calls of its idle callback
    \* HSHA
    hsha,           \* requests of the connection: reqs handed to the pool so
                    \* far, pool and loop the tasks waiting in the pool and
                    \* on the loop, sentIn and skipped the connection states
                    \* in which a response was sent and was dropped
    \* ThreadPool, the thread that owns the pool
    life,           \* pc its position ("idle", "join", "dtor", "dtorJoin",
                    \* "gone"), calls its start() and join() calls so far, op
                    \* and ret the last of start, join and destructor it
                    \* entered and how that ended, exited whether exit() had
                    \* returned when op was entered
    \* Channel and PollerEpoll
    chs,            \* ch the channels: m_fd (-1 once closed), live (in
                    \* m_liveChannels), closes (::close calls on its fd) and st
                    \* ("alive", "dying" inside closeNow, "destroyed"); poller
                    \* "up", "tearing", "hung" or "gone"; handler the channel
                    \* whose read callback runs inside close(), 0: none;
                    \* reentered whether that callback has called close()
    \* TcpConn, locks and callbacks
    cbs,            \* owner of m_stateMutex, m_callBacksMutex and
                    \* m_ChannelMutex (0 free, 1 the loop thread, 2 another
                    \* thread); site the place that is invoking a user
                    \* callback; out "idle", "inCB" or "hung"; act the call
                    \* the callback has made into its connection
    \* TcpConn::_handleRead on a CONNECTED connection
    rdl,            \* pc "idle", "loop", "returned" or "hung"; fd the
                    \* channel's fd (-1 after closeNow); rd the result of the
                    \* last read; reads the number of reads; size the bytes
                    \* in m_inputBuffer; idleUpdated, cbCalled, cleaned what
                    \* the handler has done
    \* TcpConn::send and _handleWrite
    snd,            \* chan the channel ("null", "open", "closed": fd -1),
                    \* writable its write interest, out the bytes in
                    \* m_outputBuffer, sends the send() calls so far, had
                    \* whether the last send() found a Channel, how the way
                    \* its in-line write ended
    \* PollerEpoll: m_activeEvs, dispatch of one batch of ready events
    pol,            \* evs the slots 0..NumChannels of m_activeEvs (a channel,
                    \* or 0: nullptr or a value that is no channel's
                    \* address), m_lastActive, i the index loopOnce is at
                    \* (-1: outside the for loop), live the channels that
                    \* are open and registered, late the channels whose
                    \* handler loopOnce called after close() removed them,
                    \* pc "none" before the poller is made
    \* Buffer::makeRoom()
    mroom           \* "idle", "returned" or "hung": the last makeRoom() call

queueVars == <<m_items, m_capacity, q_isExited, mutex, pc, waitArg, timedOut,
               lastPop, xpc, exitCalls, attempted, pushRet, pushed, popped>>
poolVars == <<p_isExited, p_isStarted, apc, atask, curTask, execCount, ranBy>>
ebVars == <<pipeBytes, scpc, scTask, scDone, atLast>>
tmVars == <<now, m_exit, m_timers, m_timerReps, m_timerSeq, m_nextTimeout_ms,
            tpc, passNow, it, itDangling, tmSt, tmId, tmAt, tmIval, tmFired,
            tmCanc, lastCancel>>
connVars == <<c_state, m_channel, chAlive, m_reconnectInterval_ms,
              m_connectTimeout_ms, timeoutArmed, reconnectArmed, inReconnectSet,
              closePosted, cycle, termCalls, m_connectedTime_ms, reconnectAt,
              rx>>
loopVars == <<ebVars, tmVars, connVars>>
codecVars == <<cdType, m_maxMsgLen, cdBuf, cdSent, cdGot, cdClosed, cdRead, cdProbe,
               cdClone>>
bufVars == <<buffers, resv>>
idleVars == <<nowMs, m_idleEnabled, m_idleConns, idleTimer, idleLog>>
hshaVars == <<hsha>>
lifeVars == <<life>>
chanVars == <<chs>>
cbVars == <<cbs>>
readVars == <<rdl>>
sendVars == <<snd>>
pollVars == <<pol>>
roomVars == <<mroom>>
restVars == <<sendVars, pollVars, roomVars>>
tailVars == <<cbVars, readVars, restVars>>
baseVars == <<queueVars, poolVars, loopVars, codecVars, bufVars, idleVars,
              hshaVars, lifeVars, chanVars, cbVars, readVars>>
postVars == <<lifeVars, chanVars, tailVars>>
laterVars == <<hshaVars, postVars>>
pureVars == <<codecVars, bufVars, idleVars, laterVars>>
vars == <<queueVars, poolVars, loopVars, pureVars>>

\* ------------------------------------------------------------ SafeQueue<T>

\* the predicate of waitReady: m_isExited || !m_items.empty()
pred == q_isExited \/ m_items # <<>>

\* m_condReady.notify_one(): one thread blocked on the condition variable, if
\* there is any, is made runnable
NotifyOne(pcs) ==
    LET blocked == {c \in Consumers : pcs[c] = "blocked"}
    IN  IF blocked = {} THEN {pcs}
        ELSE {[pcs EXCEPT ![c] = "notified"] : c \in blocked}

\* m_condReady.notify_all()
NotifyAll(pcs) ==
    [c \in Consumers |-> IF pcs[c] = "blocked" THEN "notified" ELSE pcs[c]]

\* the refusal test of push with the capacity test off by one
PushRefused_offByOne ==
    q_isExited \/ (m_capacity > 0 /\ Len(m_items) > m_capacity)

\* the refusal test of push
PushRefused ==
    q_isExited \/ (m_capacity > 0 /\ Len(m_items) >= m_capacity)

\* push that puts the item at the front of the list
QPush_front(t) ==
    /\ mutex = 0
    /\ attempted' = attempted \cup {t}
    /\ IF PushRefused
       THEN /\ pushRet' = [pushRet EXCEPT ![t] = "false"]
            /\ UNCHANGED <<m_items, pushed, pc>>
       ELSE /\ m_items' = <<t>> \o m_items
            /\ pushed' = Append(pushed, t)
            /\ pc' \in NotifyOne(pc)
            /\ pushRet' = [pushRet EXCEPT ![t] = "true"]
    /\ UNCHANGED <<m_capacity, q_isExited, mutex, waitArg, timedOut, lastPop,
                   xpc, exitCalls, popped>>

\* SafeQueue::push, the whole critical section
QPush(t) ==
    /\ mutex = 0
    /\ attempted' = attempted \cup {t}
    /\ IF PushRefused
       THEN /\ pushRet' = [pushRet EXCEPT ![t] = "false"]
            /\ UNCHANGED <<m_items, pushed, pc>>
       ELSE /\ m_items' = Append(m_items, t)
            /\ pushed' = Append(pushed, t)
            /\ pc' \in NotifyOne(pc)
            /\ pushRet' = [pushRet EXCEPT ![t] = "true"]
    /\ UNCHANGED <<m_capacity, q_isExited, mutex, waitArg, timedOut, lastPop,
                   xpc, exitCalls, popped>>

\* SafeQueue::popWait entry: the thread takes m_mutex
QPopLock(c, w, from) ==
    /\ pc[c] = from
    /\ mutex = 0
    /\ mutex' = c
    /\ pc' = [pc EXCEPT ![c] = "locked"]
    /\ waitArg' = [waitArg EXCEPT ![c] = w]
    /\ UNCHANGED <<m_items, m_capacity, q_isExited, timedOut, lastPop, xpc,
                   exitCalls, attempted, pushRet, pushed, popped>>

\* the tail of popWait after waitReady returned: take the head and return
\* true, or return false on an empty list; the lock is released
QTake(c, toTrue, toFalse) ==
    /\ mutex' = 0
    /\ waitArg' = [waitArg EXCEPT ![c] = 0]
    /\ timedOut' = [timedOut EXCEPT ![c] = FALSE]
    /\ IF m_items = <<>>
       THEN /\ pc' = [pc EXCEPT ![c] = toFalse]
            /\ lastPop' = [w |-> waitArg[c], ret |-> "false",
                           exited |-> q_isExited]
            /\ UNCHANGED <<m_items, popped>>
       ELSE /\ pc' = [pc EXCEPT ![c] = toTrue]
            /\ lastPop' = [w |-> waitArg[c], ret |-> "true",
                           exited |-> q_isExited]
            /\ m_items' = Tail(m_items)
            /\ popped' = Append(popped, Head(m_items))

\* SafeQueue::waitReady with the lock held: return at once for a zero wait,
\* when the predicate holds or when the deadline has passed (popWait then
\* takes); otherwise decide to wait
QWaitReady(c, toTrue, toFalse) ==
    /\ pc[c] = "locked"
    /\ mutex = c
    /\ IF waitArg[c] = 0 \/ pred \/ timedOut[c]
       THEN QTake(c, toTrue, toFalse)
       ELSE /\ pc' = [pc EXCEPT ![c] = "mustBlock"]
            /\ UNCHANGED <<m_items, mutex, waitArg, timedOut, lastPop, popped>>
    /\ UNCHANGED <<m_capacity, q_isExited, xpc, exitCalls, attempted, pushRet,
                   pushed>>

\* condition_variable::wait: release m_mutex and block, atomically
QBlock(c) ==
    /\ pc[c] = "mustBlock"
    /\ mutex = c
    /\ mutex' = 0
    /\ pc' = [pc EXCEPT ![c] = "blocked"]
    /\ UNCHANGED <<m_items, m_capacity, q_isExited, waitArg, timedOut, lastPop,
                   xpc, exitCalls, attempted, pushRet, pushed, popped>>

\* a spurious wakeup, which condition_variable::wait permits
QSpurious(c) ==
    /\ pc[c] = "blocked"
    /\ pc' = [pc EXCEPT ![c] = "notified"]
    /\ UNCHANGED <<m_items, m_capacity, q_isExited, mutex, waitArg, timedOut,
                   lastPop, xpc, exitCalls, attempted, pushRet, pushed, popped>>

\* the deadline of wait_until passes while the thread is blocked
QTimeout(c) ==
    /\ pc[c] = "blocked"
    /\ waitArg[c] # kWaitInfinite
    /\ pc' = [pc EXCEPT ![c] = "notified"]
    /\ timedOut' = [timedOut EXCEPT ![c] = TRUE]
    /\ UNCHANGED <<m_items, m_capacity, q_isExited, mutex, waitArg, lastPop,
                   xpc, exitCalls, attempted, pushRet, pushed, popped>>

\* a woken thread takes m_mutex again and re-evaluates the predicate
QResume(c) ==
    /\ pc[c] = "notified"
    /\ mutex = 0
    /\ mutex' = c
    /\ pc' = [pc EXCEPT ![c] = "locked"]
    /\ UNCHANGED <<m_items, m_capacity, q_isExited, waitArg, timedOut, lastPop,
                   xpc, exitCalls, attempted, pushRet, pushed, popped>>

\* exit() that also clears the list
QExitFlag_clearsItems(from) ==
    /\ xpc = from
    /\ q_isExited' = TRUE
    /\ m_items' = <<>>
    /\ xpc' = IF q_isExited THEN "idle" ELSE "notify"
    /\ UNCHANGED <<m_capacity, mutex, pc, waitArg, timedOut, lastPop,
                   attempted, pushRet, pushed, popped>>

\* SafeQueue::exit, first statement: m_isExited.exchange(true), without lock
QExitFlag(from) ==
    /\ xpc = from
    /\ q_isExited' = TRUE
    /\ xpc' = IF q_isExited THEN "idle" ELSE "notify"
    /\ UNCHANGED <<m_items, m_capacity, mutex, pc, waitArg, timedOut, lastPop,
                   attempted, pushRet, pushed, popped>>

\* exit() that notifies without taking m_mutex
QExitNotify_noLock ==
    /\ xpc = "notify"
    /\ pc' = NotifyAll(pc)
    /\ xpc' = "idle"
    /\ UNCHANGED <<m_items, m_capacity, q_isExited, mutex, waitArg, timedOut,
                   lastPop, exitCalls, attempted, pushRet, pushed, popped>>

\* SafeQueue::exit, second part: lock m_mutex, notify_all
QExitNotify ==
    /\ xpc = "notify"
    /\ mutex = 0
    /\ pc' = NotifyAll(pc)
    /\ xpc' = "idle"
    /\ UNCHANGED <<m_items, m_capacity, q_isExited, mutex, waitArg, timedOut,
                   lastPop, exitCalls, attempted, pushRet, pushed, popped>>

\* --------------------------------------------- SpecSQ: the queue on its own

NoPop == [w |-> 0, ret |-> "none", exited |-> FALSE]

InitQueue ==
    /\ m_items = <<>>
    /\ m_capacity \in Capacities
    /\ q_isExited = FALSE
    /\ mutex = 0
    /\ waitArg = [c \in Consumers |-> 0]
    /\ timedOut = [c \in Consumers |-> FALSE]
    /\ lastPop = NoPop
    /\ xpc = "idle"
    /\ exitCalls = 0
    /\ attempted = {}
    /\ pushRet = [t \in TaskIds |-> "none"]
    /\ pushed = <<>>
    /\ popped = <<>>

InitPoolIdle ==
    /\ p_isExited = FALSE
    /\ p_isStarted = FALSE
    /\ apc = [p \in Producers |-> "idle"]
    /\ atask = [p \in Producers |-> 0]
    /\ curTask = [c \in Consumers |-> 0]
    /\ execCount = [t \in TaskIds |-> 0]
    /\ ranBy = [t \in TaskIds |-> 0]

\* TcpConn::TcpConn()
InitConnIdle ==
    /\ c_state = "INVALID"
    /\ m_channel = "null"
    /\ chAlive = 0
    /\ m_reconnectInterval_ms = -1
    /\ m_connectTimeout_ms = 0
    /\ m_connectedTime_ms = 0
    /\ reconnectAt = 0
    /\ rx = "none"
    /\ timeoutArmed = FALSE
    /\ reconnectArmed = FALSE
    /\ inReconnectSet = FALSE
    /\ closePosted = FALSE
    /\ cycle = 0
    /\ termCalls = 0

\* an EventBase that is not used: no timer, no task, empty pipe
InitLoopIdle ==
    /\ InitConnIdle
    /\ pipeBytes = 0
    /\ scpc = [p \in Producers |-> "idle"]
    /\ scTask = [p \in Producers |-> 0]
    /\ scDone = {}
    /\ atLast = {}
    /\ now = 1
    /\ m_exit = FALSE
    /\ m_timers = {}
    /\ m_timerReps = {}
    /\ m_timerSeq = 0
    /\ m_nextTimeout_ms = kNoTimer
    /\ tpc = "idle"
    /\ passNow = 0
    /\ it = NoEntry
    /\ itDangling = FALSE
    /\ tmSt = [i \in TimerIx |-> "none"]
    /\ tmId = [i \in TimerIx |-> InvalidId]
    /\ tmAt = [i \in TimerIx |-> 0]
    /\ tmIval = [i \in TimerIx |-> 0]
    /\ tmFired = [i \in TimerIx |-> 0]
    /\ tmCanc = [i \in TimerIx |-> "no"]
    /\ lastCancel = NoCancel

\* LengthCodec::LengthCodec(): m_maxMsgLen(kDefaultMaxMsgLen); nothing encoded
InitCodecIdle ==
    /\ m_maxMsgLen = kDefaultMaxMsgLen
    /\ cdBuf = <<>>
    /\ cdSent = <<>>
    /\ cdGot = <<>>
    /\ cdClosed = FALSE
    /\ cdRead = FALSE
    /\ cdProbe = NoProbe
    /\ cdClone = NoClone

\* Buffer::Buffer(): m_buf(nullptr), m_b(0), m_e(0), m_cap(0), m_exp(512)
InitBuffer ==
    /\ buffers = [i \in Buffers |->
                      [m_b |-> 0, m_e |-> 0, m_cap |-> 0, m_exp |-> kDefaultExp]]
    /\ resv = [i \in Buffers |-> 0]

\* EventsImp::EventsImp(): m_idleEnabled(false), no idle handle
InitIdle ==
    /\ nowMs = 0
    /\ m_idleEnabled = FALSE
    /\ m_idleConns = [s \in IdleTimeouts |-> <<>>]
    /\ idleTimer = 0
    /\ idleLog = [c \in IdleConns |->
                     [idle_s |-> 0, since |-> 0, kind |-> "none", calls |-> 0]]

\* no codec, no buffer and no idle handle is in use
InitPureIdle ==
    /\ cdType = "line"
    /\ InitCodecIdle
    /\ InitBuffer
    /\ InitIdle
    /\ hsha = [reqs |-> 0, pool |-> 0, loop |-> 0, sentIn |-> {}, skipped |-> {}]
    /\ life = [pc |-> "idle", calls |-> 0, op |-> "none", ret |-> "none",
               exited |-> FALSE]
    /\ chs = [ch |-> <<>>, poller |-> "up", handler |-> 0, reentered |-> FALSE]
    /\ cbs = [owner |-> [l \in Locks |-> 0], site |-> "none", out |-> "idle",
              act |-> "none"]
    /\ rdl = [pc |-> "idle", fd |-> -1, rd |-> "none", reads |-> 0, size |-> 0,
              idleUpdated |-> FALSE, cbCalled |-> FALSE, cleaned |-> FALSE]
    /\ snd = [chan |-> "open", writable |-> FALSE, out |-> 0, sends |-> 0,
              had |-> FALSE, how |-> "none"]
    /\ pol = [evs |-> [k \in 0..NumChannels |-> 0], m_lastActive |-> -1,
              i |-> -1, live |-> {}, late |-> {}, pc |-> "none"]
    /\ mroom = "idle"

InitSQ ==
    /\ InitQueue
    /\ pc = [c \in Consumers |-> "idle"]
    /\ InitPoolIdle
    /\ InitLoopIdle
    /\ InitPureIdle

NextSQ ==
    \/ (\E t \in TaskIds \ attempted : QPush(t) /\ UNCHANGED <<poolVars, loopVars>>)
       /\ UNCHANGED pureVars
    \/ (\E c \in Consumers, w \in WaitTimes :
            QPopLock(c, w, "idle") /\ UNCHANGED <<poolVars, loopVars>>)
       /\ UNCHANGED pureVars
    \/ (\E c \in Consumers :
            QWaitReady(c, "idle", "idle") /\ UNCHANGED <<poolVars, loopVars>>)
       /\ UNCHANGED pureVars
    \/ (\E c \in Consumers : QBlock(c) /\ UNCHANGED <<poolVars, loopVars>>)
       /\ UNCHANGED pureVars
    \/ (\E c \in Consumers : QSpurious(c) /\ UNCHANGED <<poolVars, loopVars>>)
       /\ UNCHANGED pureVars
    \/ (\E c \in Consumers : QTimeout(c) /\ UNCHANGED <<poolVars, loopVars>>)
       /\ UNCHANGED pureVars
    \/ (\E c \in Consumers : QResume(c) /\ UNCHANGED <<poolVars, loopVars>>)
       /\ UNCHANGED pureVars
    \/ (/\ exitCalls < MaxExitCalls
        /\ QExitFlag("idle")
        /\ exitCalls' = exitCalls + 1
        /\ UNCHANGED <<poolVars, loopVars>>)
       /\ UNCHANGED pureVars
    \/ QExitNotify /\ UNCHANGED <<poolVars, loopVars>> /\ UNCHANGED pureVars

SpecSQ == InitSQ /\ [][NextSQ]_vars

\* ------------------------------------------------------------- ThreadPool

\* ThreadPool::addTask up to the call of push: refuse when the pool has exited
\* (the pool of this specification has been started, so nothing is thrown)
AddTaskCheck(p, t) ==
    /\ apc[p] = "idle"
    /\ p_isStarted
    /\ IF p_isExited
       THEN /\ attempted' = attempted \cup {t}
            /\ pushRet' = [pushRet EXCEPT ![t] = "false"]
            /\ UNCHANGED <<apc, atask>>
       ELSE /\ apc' = [apc EXCEPT ![p] = "push"]
            /\ atask' = [atask EXCEPT ![p] = t]
            /\ attempted' = attempted \cup {t}
            /\ UNCHANGED pushRet
    /\ UNCHANGED <<m_items, m_capacity, q_isExited, mutex, pc, waitArg,
                   timedOut, lastPop, xpc, exitCalls, pushed, popped,
                   p_isExited, p_isStarted, curTask, execCount, ranBy>>

\* ThreadPool::addTask, return m_taskQueue.push(std::move(task))
AddTaskPush(p) ==
    /\ apc[p] = "push"
    /\ QPush(atask[p])
    /\ apc' = [apc EXCEPT ![p] = "idle"]
    /\ atask' = [atask EXCEPT ![p] = 0]
    /\ UNCHANGED <<p_isExited, p_isStarted, curTask, execCount, ranBy>>

\* ThreadPool::workerLoop, the loop condition while(!m_isExited)
WorkerLoopCheck(c) ==
    /\ pc[c] = "loopCheck"
    /\ pc' = [pc EXCEPT ![c] = IF p_isExited THEN "stopped" ELSE "callPop"]
    /\ UNCHANGED <<m_items, m_capacity, q_isExited, mutex, waitArg, timedOut,
                   lastPop, xpc, exitCalls, attempted, pushRet, pushed, popped>>
    /\ UNCHANGED poolVars

\* workerLoop: m_taskQueue.popWait(&task) with the default kWaitInfinite
WorkerPopCall(c) ==
    /\ QPopLock(c, kWaitInfinite, "callPop")
    /\ UNCHANGED poolVars

\* workerLoop inside popWait: waitReady, then the task is moved out
WorkerWaitReady(c) ==
    /\ QWaitReady(c, "run", "loopCheck")
    /\ curTask' = [curTask EXCEPT ![c] =
                     IF pc'[c] = "run" THEN Head(m_items) ELSE 0]
    /\ UNCHANGED <<p_isExited, p_isStarted, apc, atask, execCount, ranBy>>

\* workerLoop without the try block: a task that throws ends its thread
WorkerRun_noCatch(c) ==
    /\ pc[c] = "run"
    /\ execCount' = [execCount EXCEPT ![curTask[c]] = @ + 1]
    /\ ranBy' = [ranBy EXCEPT ![curTask[c]] = c]
    /\ curTask' = [curTask EXCEPT ![c] = 0]
    /\ pc' = [pc EXCEPT ![c] = IF curTask[c] \in ThrowingTasks
                                THEN "stopped" ELSE "loopCheck"]
    /\ UNCHANGED <<m_items, m_capacity, q_isExited, mutex, waitArg, timedOut,
                   lastPop, xpc, exitCalls, attempted, pushRet, pushed, popped,
                   p_isExited, p_isStarted, apc, atask>>

\* workerLoop: task() inside try/catch. A task of ThrowingTasks throws; both
\* handlers (std::exception and ...) log and fall out of the if, so the
\* thread is at the loop condition after a throwing and after a returning
\* task alike
WorkerRun(c) ==
    /\ pc[c] = "run"
    /\ execCount' = [execCount EXCEPT ![curTask[c]] = @ + 1]
    /\ ranBy' = [ranBy EXCEPT ![curTask[c]] = c]
    /\ curTask' = [curTask EXCEPT ![c] = 0]
    /\ pc' = [pc EXCEPT ![c] = "loopCheck"]
    /\ UNCHANGED <<m_items, m_capacity, q_isExited, mutex, waitArg, timedOut,
                   lastPop, xpc, exitCalls, attempted, pushRet, pushed, popped,
                   p_isExited, p_isStarted, apc, atask>>

\* ThreadPool::exit, first statement: m_isExited.exchange(true)
PoolExitFlag ==
    /\ xpc = "idle"
    /\ exitCalls < MaxExitCalls
    /\ exitCalls' = exitCalls + 1
    /\ p_isExited' = TRUE
    /\ xpc' = IF p_isExited THEN "idle" ELSE "queueExit"
    /\ UNCHANGED <<m_items, m_capacity, q_isExited, mutex, pc, waitArg,
                   timedOut, lastPop, attempted, pushRet, pushed, popped,
                   p_isStarted, apc, atask, curTask, execCount, ranBy>>
    /\ UNCHANGED loopVars

\* ThreadPool::exit, m_taskQueue.exit()
PoolQueueExitFlag ==
    /\ QExitFlag("queueExit")
    /\ UNCHANGED exitCalls
    /\ UNCHANGED <<poolVars, loopVars>>

PoolQueueExitNotify == QExitNotify /\ UNCHANGED <<poolVars, loopVars>>

\* ----------------------------------------------- SpecTP: the started pool

\* ThreadPool(threadNum, taskQueueCapacity, isStartImmediately = true): every
\* worker thread is at the top of workerLoop
InitTP ==
    /\ InitQueue
    /\ pc = [c \in Consumers |-> "loopCheck"]
    /\ p_isExited = FALSE
    /\ p_isStarted = TRUE
    /\ apc = [p \in Producers |-> "idle"]
    /\ atask = [p \in Producers |-> 0]
    /\ curTask = [c \in Consumers |-> 0]
    /\ execCount = [t \in TaskIds |-> 0]
    /\ ranBy = [t \in TaskIds |-> 0]
    /\ InitLoopIdle
    /\ InitPureIdle

NextTP ==
    \/ (\E p \in Producers, t \in TaskIds \ attempted :
            AddTaskCheck(p, t) /\ UNCHANGED loopVars)
       /\ UNCHANGED pureVars
    \/ (\E p \in Producers : AddTaskPush(p) /\ UNCHANGED loopVars)
       /\ UNCHANGED pureVars
    \/ (\E c \in Consumers : WorkerLoopCheck(c) /\ UNCHANGED loopVars)
       /\ UNCHANGED pureVars
    \/ (\E c \in Consumers : WorkerPopCall(c) /\ UNCHANGED loopVars)
       /\ UNCHANGED pureVars
    \/ (\E c \in Consumers : WorkerWaitReady(c) /\ UNCHANGED loopVars)
       /\ UNCHANGED pureVars
    \/ (\E c \in Consumers : QBlock(c) /\ UNCHANGED <<poolVars, loopVars>>)
       /\ UNCHANGED pureVars
    \/ (\E c \in Consumers : QSpurious(c) /\ UNCHANGED <<poolVars, loopVars>>)
       /\ UNCHANGED pureVars
    \/ (\E c \in Consumers : QResume(c) /\ UNCHANGED <<poolVars, loopVars>>)
       /\ UNCHANGED pureVars
    \/ (\E c \in Consumers : WorkerRun(c) /\ UNCHANGED loopVars)
       /\ UNCHANGED pureVars
    \/ PoolExitFlag /\ UNCHANGED pureVars
    \/ PoolQueueExitFlag /\ UNCHANGED pureVars
    \/ PoolQueueExitNotify /\ UNCHANGED pureVars

SpecTP == InitTP /\ [][NextTP]_vars

\* ------------------------------------- SpecPL: the pool and its owner thread

\* join() that returns without waiting for the threads
PoolJoinReturn_noWait ==
    /\ life.pc \in {"join", "dtorJoin"}
    /\ life' = [life EXCEPT !.pc = IF @ = "join" THEN "idle" ELSE "gone",
                            !.ret = IF life.pc = "join" THEN "returned" ELSE "done"]

\* ThreadPool::join, the loop over m_threads and m_threads.clear():
\* thread.join() returns once the thread has left workerLoop
PoolJoinReturn ==
    /\ life.pc \in {"join", "dtorJoin"}
    /\ \A c \in Consumers : pc[c] \in {"stopped", "nothread"}
    /\ life' = [life EXCEPT !.pc = IF @ = "join" THEN "idle" ELSE "gone",
                            !.ret = IF life.pc = "join" THEN "returned" ELSE "done"]

\* ThreadPool(threadNum, taskQueueCapacity, isStartImmediately): with
\* isStartImmediately the constructor calls start(), without it no thread
\* has been made
InitPL ==
    \/ InitTP
    \/ /\ InitQueue
       /\ pc = [c \in Consumers |-> "nothread"]
       /\ InitPoolIdle
       /\ InitLoopIdle
       /\ InitPureIdle

NextPL ==
    \* addTask of the first MaxOwnerTasks tasks, exit() of any thread and the
    \* worker threads, while the pool object is there
    \/ life.pc # "gone" /\ NextTP /\ attempted' \subseteq 1..MaxOwnerTasks
    \* start(): m_isStarted.exchange(true) returns at once on a started
    \* pool; otherwise logic_error when m_isExited, else the threads are made
    \/ /\ life.pc = "idle"
       /\ life.calls < MaxOwnerCalls
       /\ p_isStarted' = TRUE
       /\ pc' = IF p_isStarted \/ p_isExited THEN pc
                ELSE [c \in Consumers |-> "loopCheck"]
       /\ life' = [life EXCEPT !.calls = @ + 1, !.op = "start",
                               !.ret = IF ~p_isStarted /\ p_isExited
                                       THEN "logic_error" ELSE "returned",
                               !.exited = p_isExited /\ xpc = "idle"]
       /\ UNCHANGED <<m_items, m_capacity, q_isExited, mutex, waitArg,
                      timedOut, lastPop, xpc, exitCalls, attempted, pushRet,
                      pushed, popped, p_isExited, apc, atask, curTask,
                      execCount, ranBy>>
       /\ UNCHANGED <<loopVars, codecVars, bufVars, idleVars, hshaVars, chanVars, tailVars>>
    \* join(), the test: logic_error unless started and exited
    \/ /\ life.pc = "idle"
       /\ life.calls < MaxOwnerCalls
       /\ life' = [life EXCEPT !.calls = @ + 1, !.op = "join",
                               !.pc = IF p_isStarted /\ p_isExited
                                      THEN "join" ELSE "idle",
                               !.ret = IF p_isStarted /\ p_isExited
                                       THEN "none" ELSE "logic_error",
                               !.exited = p_isExited /\ xpc = "idle"]
       /\ UNCHANGED <<queueVars, poolVars, loopVars, codecVars, bufVars,
                      idleVars, hshaVars, chanVars, tailVars>>
    \/ PoolJoinReturn /\ UNCHANGED <<queueVars, poolVars, loopVars, codecVars,
                                     bufVars, idleVars, hshaVars, chanVars, tailVars>>
    \* ~ThreadPool(), exit(): m_isExited.exchange(true), then m_taskQueue.exit()
    \* unless the flag was set
    \/ /\ life.pc = "idle"
       /\ xpc = "idle"
       /\ \A p \in Producers : apc[p] = "idle"
       /\ life' = [life EXCEPT !.pc = "dtor", !.op = "dtor", !.ret = "none",
                               !.exited = p_isExited]
       /\ p_isExited' = TRUE
       /\ xpc' = IF p_isExited THEN "idle" ELSE "queueExit"
       /\ UNCHANGED <<m_items, m_capacity, q_isExited, mutex, pc, waitArg,
                      timedOut, lastPop, exitCalls, attempted, pushRet, pushed,
                      popped, p_isStarted, apc, atask, curTask, execCount,
                      ranBy>>
       /\ UNCHANGED <<loopVars, codecVars, bufVars, idleVars, hshaVars, chanVars, tailVars>>
    \* ~ThreadPool() noexcept, join(): the logic_error of a pool that was not
    \* started leaves a noexcept function, which is std::terminate
    \/ /\ life.pc = "dtor"
       /\ xpc = "idle"
       /\ life' = [life EXCEPT !.pc = IF p_isStarted THEN "dtorJoin" ELSE "gone",
                               !.ret = IF p_isStarted THEN "none" ELSE "terminate"]
       /\ UNCHANGED <<queueVars, poolVars, loopVars, codecVars, bufVars,
                      idleVars, hshaVars, chanVars, tailVars>>

SpecPL == InitPL /\ [][NextPL]_vars

\* the worker threads and the thread inside exit() go on running
SpecPLLive ==
    /\ SpecPL
    /\ WF_vars(/\ life.pc # "gone"
               /\ \E c \in Consumers :
                     \/ WorkerLoopCheck(c) \/ WorkerPopCall(c)
                     \/ WorkerWaitReady(c) \/ WorkerRun(c)
                     \/ QBlock(c) /\ UNCHANGED poolVars
                     \/ QResume(c) /\ UNCHANGED poolVars
               /\ UNCHANGED <<loopVars, pureVars>>)
    /\ WF_vars((PoolQueueExitFlag \/ PoolQueueExitNotify) /\ UNCHANGED pureVars)
    /\ WF_vars(PoolJoinReturn /\ UNCHANGED <<queueVars, poolVars, loopVars,
                                             codecVars, bufVars, idleVars,
                                             hshaVars, chanVars, tailVars>>)

\* ------------------------------------------- EventBase: safeCall and wakeup

\* EventBase::safeCall, m_imp->m_tasks.push(std::move(task)): the result of
\* push is not looked at
SafeCallPush(p, t) ==
    /\ scpc[p] = "idle"
    /\ QPush(t)
    /\ scpc' = [scpc EXCEPT ![p] = "wakeup"]
    /\ scTask' = [scTask EXCEPT ![p] = t]
    /\ UNCHANGED <<pipeBytes, scDone, atLast, poolVars, tmVars, connVars>>

\* EventsImp::wakeup: write one byte to the non-blocking pipe; on a full pipe
\* write fails with EAGAIN and only an error is logged
Wakeup(p) ==
    /\ scpc[p] = "wakeup"
    /\ pipeBytes' = IF pipeBytes < PipeCapacity THEN pipeBytes + 1 ELSE pipeBytes
    /\ scpc' = [scpc EXCEPT ![p] = "idle"]
    /\ scDone' = IF scTask[p] = 0 THEN scDone ELSE scDone \cup {scTask[p]}
    /\ scTask' = [scTask EXCEPT ![p] = 0]
    /\ UNCHANGED <<atLast, queueVars, poolVars, tmVars, connVars>>

\* the poller reports the read end readable (level-triggered) and the wakeup
\* handler reads up to sizeof(buf) bytes; r > 0, so it goes on to the tasks
WakeupRead ==
    /\ pc[LoopThread] = "poll"
    /\ pipeBytes > 0
    /\ pipeBytes' = IF pipeBytes > kWakeupBuf THEN pipeBytes - kWakeupBuf ELSE 0
    /\ pc' = [pc EXCEPT ![LoopThread] = "drain"]
    /\ UNCHANGED <<m_items, m_capacity, q_isExited, mutex, waitArg, timedOut,
                   lastPop, xpc, exitCalls, attempted, pushRet, pushed, popped>>
    /\ UNCHANGED <<scpc, scTask, scDone, atLast, poolVars, tmVars, connVars>>

\* wakeup handler: while (m_tasks.popWait(&task, 0)), the call
DrainPopCall ==
    /\ QPopLock(LoopThread, 0, "drain")
    /\ UNCHANGED <<poolVars, loopVars>>

\* wakeup handler: popWait(&task, 0) returns; true moves the head into task,
\* false ends the handler
DrainWaitReady ==
    /\ QWaitReady(LoopThread, "run", "poll")
    /\ curTask' = [curTask EXCEPT ![LoopThread] =
                     IF pc'[LoopThread] = "run" THEN Head(m_items) ELSE 0]
    /\ UNCHANGED <<p_isExited, p_isStarted, apc, atask, execCount, ranBy,
                   loopVars>>

\* wakeup handler: task() inside try/catch
DrainRun ==
    /\ pc[LoopThread] = "run"
    /\ execCount' = [execCount EXCEPT ![curTask[LoopThread]] = @ + 1]
    /\ curTask' = [curTask EXCEPT ![LoopThread] = 0]
    /\ pc' = [pc EXCEPT ![LoopThread] = "drain"]
    /\ UNCHANGED <<m_items, m_capacity, q_isExited, mutex, waitArg, timedOut,
                   lastPop, xpc, exitCalls, attempted, pushRet, pushed, popped,
                   p_isExited, p_isStarted, apc, atask, ranBy, loopVars>>

\* EventBase(taskCapacity): m_tasks(taskCap), the pipe is empty and the loop
\* thread is in the poller; the other threads call safeCall
InitEB ==
    /\ InitQueue
    /\ pc = [c \in Consumers |-> IF c = LoopThread THEN "poll" ELSE "idle"]
    /\ InitPoolIdle
    /\ InitLoopIdle
    /\ InitPureIdle

NextEB ==
    \/ (\E p \in Producers, t \in TaskIds \ attempted : SafeCallPush(p, t))
       /\ UNCHANGED pureVars
    \/ (\E p \in Producers : Wakeup(p))
       /\ UNCHANGED pureVars
    \/ WakeupRead /\ UNCHANGED pureVars
    \/ DrainPopCall /\ UNCHANGED pureVars
    \/ DrainWaitReady /\ UNCHANGED pureVars
    \/ DrainRun /\ UNCHANGED pureVars

SpecEB == InitEB /\ [][NextEB]_vars

\* ------------------------------------------------- EventBase: loop and exit
\* tpc is the position of the loop thread in loop(): "idle" at the test of
\* while (!m_exit), "once" in the poller of loopOnce(10000), "onceH" in or
\* after the wakeup handler of that loopOnce, "last" and "lastH" the same for
\* the loopOnce(0) that follows the while loop, "exited" after loop() returned

\* the timer members, which an EventBase without timers leaves alone
tmIdle == <<now, m_timerSeq, m_nextTimeout_ms, passNow, it, itDangling, tmSt,
            tmId, tmAt, tmIval, tmFired, tmCanc, lastCancel>>

\* EventBase::exit from any thread, m_imp->m_exit = true; wakeup() follows
ExitFlag(p) ==
    /\ scpc[p] = "idle"
    /\ m_exit' = TRUE
    /\ scpc' = [scpc EXCEPT ![p] = "wakeup"]
    /\ UNCHANGED <<pipeBytes, scTask, scDone, atLast, queueVars, poolVars,
                   m_timers, m_timerReps, tpc, tmIdle, connVars>>

\* EventsImp::loop, the test of while (!m_exit): false starts loopOnce(10000);
\* true clears the timer maps and starts loopOnce(0)
LoopTest ==
    /\ tpc = "idle"
    /\ tpc' = IF m_exit THEN "last" ELSE "once"
    /\ m_timers' = IF m_exit THEN {} ELSE m_timers
    /\ m_timerReps' = IF m_exit THEN {} ELSE m_timerReps
    /\ atLast' = IF m_exit THEN {t \in scDone : pushRet[t] = "true"} ELSE atLast
    /\ UNCHANGED <<pipeBytes, scpc, scTask, scDone, queueVars, poolVars,
                   m_exit, tmIdle, connVars>>

\* PollerEpoll::loopOnce: epoll_wait reports the read end of the pipe and
\* the wakeup handler reads up to sizeof(buf) bytes
PollWakeup ==
    /\ tpc \in {"once", "last"}
    /\ pc[LoopThread] = "poll"
    /\ pipeBytes > 0
    /\ pipeBytes' = IF pipeBytes > kWakeupBuf THEN pipeBytes - kWakeupBuf ELSE 0
    /\ pc' = [pc EXCEPT ![LoopThread] = "drain"]
    /\ tpc' = IF tpc = "once" THEN "onceH" ELSE "lastH"
    /\ UNCHANGED <<m_items, m_capacity, q_isExited, mutex, waitArg, timedOut,
                   lastPop, xpc, exitCalls, attempted, pushRet, pushed, popped>>
    /\ UNCHANGED <<scpc, scTask, scDone, atLast, poolVars, m_exit, m_timers,
                   m_timerReps, tmIdle, connVars>>

\* loopOnce that returns although the pipe is readable
PollTimeout_ignoresPipe ==
    /\ tpc \in {"once", "last"}
    /\ pc[LoopThread] = "poll"
    /\ tpc' = IF tpc = "once" THEN "idle" ELSE "exited"
    /\ UNCHANGED <<ebVars, queueVars, poolVars, m_exit, m_timers, m_timerReps,
                   tmIdle, connVars>>

\* PollerEpoll::loopOnce: epoll_wait returns 0 events, at once in
\* loopOnce(0) and after the wait time otherwise; handleTimeoutTimers finds
\* no timer and loopOnce returns
PollTimeout ==
    /\ tpc \in {"once", "last"}
    /\ pc[LoopThread] = "poll"
    /\ pipeBytes = 0
    /\ tpc' = IF tpc = "once" THEN "idle" ELSE "exited"
    /\ UNCHANGED <<ebVars, queueVars, poolVars, m_exit, m_timers, m_timerReps,
                   tmIdle, connVars>>

\* the wakeup handler has returned: handleTimeoutTimers finds no timer and
\* loopOnce returns
LoopOnceReturn ==
    /\ tpc \in {"onceH", "lastH"}
    /\ pc[LoopThread] = "poll"
    /\ tpc' = IF tpc = "onceH" THEN "idle" ELSE "exited"
    /\ UNCHANGED <<ebVars, queueVars, poolVars, m_exit, m_timers, m_timerReps,
                   tmIdle, connVars>>

\* an EventBase whose loop thread enters loop(); the other threads call
\* safeCall and exit
InitLoop == InitEB

NextLoop ==
    \/ \E p \in Producers, t \in TaskIds \ attempted : SafeCallPush(p, t) /\ UNCHANGED pureVars
    \/ \E p \in Producers : Wakeup(p) /\ UNCHANGED pureVars
    \/ \E p \in Producers : ExitFlag(p) /\ UNCHANGED pureVars
    \/ LoopTest /\ UNCHANGED pureVars
    \/ PollWakeup /\ UNCHANGED pureVars
    \/ PollTimeout /\ UNCHANGED pureVars
    \/ LoopOnceReturn /\ UNCHANGED pureVars
    \/ DrainPopCall /\ UNCHANGED pureVars
    \/ DrainWaitReady /\ UNCHANGED pureVars
    \/ DrainRun /\ UNCHANGED pureVars

SpecLoop == InitLoop /\ [][NextLoop]_vars

\* a step of the loop thread
LoopThreadStep ==
    \/ LoopTest /\ UNCHANGED pureVars
    \/ PollWakeup /\ UNCHANGED pureVars
    \/ PollTimeout /\ UNCHANGED pureVars
    \/ LoopOnceReturn /\ UNCHANGED pureVars
    \/ DrainPopCall /\ UNCHANGED pureVars
    \/ DrainWaitReady /\ UNCHANGED pureVars
    \/ DrainRun /\ UNCHANGED pureVars

\* the loop thread runs, a task returns, and a thread inside safeCall or
\* exit goes on to its wakeup
SpecLoopLive ==
    /\ SpecLoop
    /\ WF_vars(LoopThreadStep)
    /\ WF_vars(\E p \in Producers : Wakeup(p) /\ UNCHANGED pureVars)

\* ------------------------------------------------------ EventBase: timers

\* operator< of TimerId, a std::pair<int64_t, int64_t>
KeyLess(a, b) == a[1] < b[1] \/ (a[1] = b[1] /\ a[2] < b[2])

\* m_timers.begin() of the map T: the entry with the least key, or end()
Begin(T) ==
    IF T = {} THEN NoEntry
    ELSE CHOOSE e \in T : \A f \in T : f = e \/ KeyLess(e.key, f.key)

\* it++ from the entry e of the map T
Successor(e, T) == Begin({f \in T : KeyLess(e.key, f.key)})

\* it->first < maxTimerId with maxTimerId{now_ms, INT64_MAX}
Due(e, t) == e.key[1] <= t

\* refreshNearestTimer: the value given to m_nextTimeout_ms for the map T
RefreshNearestTimer(T) ==
    IF T = {} THEN kNoTimer
    ELSE IF Begin(T).key[1] - now > 0 THEN Begin(T).key[1] - now ELSE 0

\* cancel that leaves the scheduled one-shot of a repeating timer in m_timers
CancelResult_keepsOneShot(T, R, id) ==
    IF id[1] < 0
    THEN IF \E r \in R : r.key = id
         THEN LET r == CHOOSE r \in R : r.key = id
              IN  [timers |-> T, reps |-> R \ {r}, ret |-> TRUE]
         ELSE [timers |-> T, reps |-> R, ret |-> FALSE]
    ELSE IF \E e \in T : e.key = id
         THEN [timers |-> {e \in T : e.key # id}, reps |-> R, ret |-> TRUE]
         ELSE [timers |-> T, reps |-> R, ret |-> FALSE]

\* EventsImp::cancel on the maps T (m_timers) and R (m_timerReps): the maps
\* afterwards and the value returned
CancelResult(T, R, id) ==
    IF id[1] < 0
    THEN IF \E r \in R : r.key = id
         THEN LET r == CHOOSE r \in R : r.key = id
              IN  [timers |-> {e \in T : e.key # r.timerIdPair},
                   reps |-> R \ {r}, ret |-> TRUE]
         ELSE [timers |-> T, reps |-> R, ret |-> FALSE]
    ELSE IF \E e \in T : e.key = id
         THEN [timers |-> {e \in T : e.key # id}, reps |-> R, ret |-> TRUE]
         ELSE [timers |-> T, reps |-> R, ret |-> FALSE]

\* the key repeatableTimeout looks its descriptor up by:
\* {-tr->at, tr->timerIdPair.second}
RepKeyOf(tr) == <<-tr.at, tr.timerIdPair[2]>>

\* EventsImp::repeatableTimeout(tr) on the maps T and R with sequence number
\* q, up to the call of tr->task(): return when the lookup fails, else move
\* the descriptor to its next deadline and register the next one-shot
RepeatableTimeout(T, R, q, tr) ==
    IF ~(\E r \in R : r.key = RepKeyOf(tr))
    THEN [timers |-> T, reps |-> R, seq |-> q, called |-> FALSE]
    ELSE LET tr2 == [tr EXCEPT !.at = tr.at + tr.interval_ms,
                               !.timerIdPair = <<tr.at + tr.interval_ms, q + 1>>]
         IN  [timers |-> T \cup {[key |-> tr2.timerIdPair, kind |-> "rep",
                                  tr |-> tr.key, who |-> tr.who]},
              reps |-> (R \ {tr}) \cup {tr2}, seq |-> q + 1, called |-> TRUE]

\* the first call of cancel for registration j is early when its task has
\* not been invoked yet (fired: the invocation counts at the call)
CancNote(j, fired) == IF tmCanc[j] # "no" THEN tmCanc[j]
                      ELSE IF fired[j] = 0 THEN "early" ELSE "late"

\* the body of a user task: it returns at once (b = 0) or calls cancel with
\* the id of registration b
Body(T, R, b) ==
    IF b = 0 THEN [timers |-> T, reps |-> R, ret |-> FALSE]
    ELSE CancelResult(T, R, tmId[b])

\* EventsImp::runAt(timestamp_ms, task, interval_ms) for registration i
RunAt(i, ts, iv) ==
    /\ tmSt[i] = "none"
    /\ tmAt' = [tmAt EXCEPT ![i] = ts]
    /\ tmIval' = [tmIval EXCEPT ![i] = iv]
    /\ IF m_exit
       THEN /\ tmSt' = [tmSt EXCEPT ![i] = "refused"]
            /\ UNCHANGED <<tmId, m_timers, m_timerReps, m_timerSeq,
                           m_nextTimeout_ms>>
       ELSE /\ tmSt' = [tmSt EXCEPT ![i] = "live"]
            /\ IF iv > 0
               THEN LET rep == <<-ts, m_timerSeq + 1>>
                        tr == [key |-> rep, at |-> ts, interval_ms |-> iv,
                               timerIdPair |-> <<ts, m_timerSeq + 2>>,
                               who |-> i]
                    IN  /\ m_timerSeq' = m_timerSeq + 2
                        /\ m_timerReps' = m_timerReps \cup {tr}
                        /\ m_timers' = m_timers \cup
                              {[key |-> tr.timerIdPair, kind |-> "rep",
                                tr |-> rep, who |-> i]}
                        /\ tmId' = [tmId EXCEPT ![i] = rep]
               ELSE LET tid == <<ts, m_timerSeq + 1>>
                    IN  /\ m_timerSeq' = m_timerSeq + 1
                        /\ m_timers' = m_timers \cup
                              {[key |-> tid, kind |-> "user",
                                tr |-> InvalidId, who |-> i]}
                        /\ tmId' = [tmId EXCEPT ![i] = tid]
                        /\ UNCHANGED m_timerReps
            /\ m_nextTimeout_ms' = RefreshNearestTimer(m_timers')
    /\ lastCancel' = NoCancel
    /\ UNCHANGED <<now, m_exit, tpc, passNow, it, itDangling, tmFired, tmCanc>>

\* the call cancel(tmId[j]) made on the maps T and R with m_nextTimeout_ms
\* n, after the invocations counted in fired; again: cancel has been called
\* with this id before
CancelCall(j, T, R, n, fired) ==
    [who |-> j,
     ret |-> IF CancelResult(T, R, tmId[j]).ret THEN "true" ELSE "false",
     timers |-> T, reps |-> R, next |-> n, fired |-> fired[j],
     again |-> tmCanc[j] # "no"]

\* cancel that calls refreshNearestTimer before it looks the id up
Cancel_refreshFirst(j) ==
    /\ tmSt[j] = "live"
    /\ LET c == CancelResult(m_timers, m_timerReps, tmId[j])
       IN  /\ m_timers' = c.timers
           /\ m_timerReps' = c.reps
           /\ m_nextTimeout_ms' = RefreshNearestTimer(c.timers)
    /\ tmCanc' = [tmCanc EXCEPT ![j] = CancNote(j, tmFired)]
    /\ lastCancel' = CancelCall(j, m_timers, m_timerReps, m_nextTimeout_ms,
                                tmFired)
    /\ UNCHANGED <<now, m_exit, m_timerSeq, tpc, passNow, it, itDangling,
                   tmSt, tmId, tmAt, tmIval, tmFired>>

\* EventsImp::cancel(timerIdPair) with the id of registration j
Cancel(j) ==
    /\ tmSt[j] = "live"
    /\ LET c == CancelResult(m_timers, m_timerReps, tmId[j])
       IN  /\ m_timers' = c.timers
           /\ m_timerReps' = c.reps
           /\ m_nextTimeout_ms' = IF c.ret THEN RefreshNearestTimer(c.timers)
                                  ELSE m_nextTimeout_ms
    /\ tmCanc' = [tmCanc EXCEPT ![j] = CancNote(j, tmFired)]
    /\ lastCancel' = CancelCall(j, m_timers, m_timerReps, m_nextTimeout_ms,
                                tmFired)
    /\ UNCHANGED <<now, m_exit, m_timerSeq, tpc, passNow, it, itDangling,
                   tmSt, tmId, tmAt, tmIval, tmFired>>

\* EventsImp::loopOnce after the poller returned: handleTimeoutTimers reads
\* the clock and takes m_timers.begin()
HandleTimeoutTimersBegin ==
    /\ tpc = "idle"
    /\ ~m_exit
    /\ tpc' = "pass"
    /\ passNow' = now
    /\ it' = Begin(m_timers)
    /\ itDangling' = FALSE
    /\ lastCancel' = NoCancel
    /\ UNCHANGED <<now, m_exit, m_timers, m_timerReps, m_timerSeq,
                   m_nextTimeout_ms, tmSt, tmId, tmAt, tmIval, tmFired, tmCanc>>

\* a turn of the loop that invokes the task with its entry still in the map
\* and erases the entry afterwards
HandleTimeoutTimersStep_invokeFirst(b) ==
    /\ tpc = "pass"
    /\ ~itDangling
    /\ it # NoEntry
    /\ Due(it, passNow)
    /\ b # 0 => tmSt[b] = "live"
    /\ LET T1 == m_timers \ {it}
           nxt == Successor(it, m_timers)
           rt == IF it.kind = "rep"
                 THEN RepeatableTimeout(T1, m_timerReps, m_timerSeq,
                        CHOOSE r \in m_timerReps : r.key = it.tr)
                 ELSE [timers |-> T1, reps |-> m_timerReps,
                       seq |-> m_timerSeq, called |-> TRUE]
           fired == IF rt.called THEN [tmFired EXCEPT ![it.who] = @ + 1]
                    ELSE tmFired
           bd == IF rt.called THEN Body(rt.timers \cup {it}, rt.reps, b)
                 ELSE [timers |-> rt.timers, reps |-> rt.reps, ret |-> FALSE]
       IN  /\ (~rt.called => b = 0)
           /\ m_timers' = bd.timers \ {it}
           /\ m_timerReps' = bd.reps
           /\ m_timerSeq' = rt.seq
           /\ m_nextTimeout_ms' =
                 IF bd.ret THEN RefreshNearestTimer(bd.timers)
                 ELSE IF it.kind = "rep" /\ rt.called
                      THEN RefreshNearestTimer(rt.timers)
                      ELSE m_nextTimeout_ms
           /\ tmFired' = fired
           /\ tmCanc' = IF rt.called /\ b # 0
                        THEN [tmCanc EXCEPT ![b] = CancNote(b, fired)]
                        ELSE tmCanc
           /\ lastCancel' =
                 IF rt.called /\ b # 0
                 THEN CancelCall(b, rt.timers \cup {it}, rt.reps,
                        IF it.kind = "rep" THEN RefreshNearestTimer(rt.timers)
                        ELSE m_nextTimeout_ms, fired)
                 ELSE NoCancel
           /\ it' = nxt
           /\ itDangling' = (nxt # NoEntry /\ nxt \notin bd.timers)
    /\ UNCHANGED <<now, m_exit, tpc, passNow, tmSt, tmId, tmAt, tmIval>>

\* handleTimeoutTimers, one turn of the while loop on a due entry: the task
\* is moved out, erase(it++), task(). A one-shot's task is the user's, with
\* body b; a repeating timer's task is repeatableTimeout(tr), which calls the
\* user's task when its lookup succeeds
HandleTimeoutTimersStep(b) ==
    /\ tpc = "pass"
    /\ ~itDangling
    /\ it # NoEntry
    /\ Due(it, passNow)
    /\ b # 0 => tmSt[b] = "live"
    /\ LET T1 == m_timers \ {it}
           nxt == Successor(it, m_timers)
           rt == IF it.kind = "rep"
                 THEN RepeatableTimeout(T1, m_timerReps, m_timerSeq,
                        CHOOSE r \in m_timerReps : r.key = it.tr)
                 ELSE [timers |-> T1, reps |-> m_timerReps,
                       seq |-> m_timerSeq, called |-> TRUE]
           fired == IF rt.called THEN [tmFired EXCEPT ![it.who] = @ + 1]
                    ELSE tmFired
           bd == IF rt.called THEN Body(rt.timers, rt.reps, b)
                 ELSE [timers |-> rt.timers, reps |-> rt.reps, ret |-> FALSE]
       IN  /\ (~rt.called => b = 0)
           /\ m_timers' = bd.timers
           /\ m_timerReps' = bd.reps
           /\ m_timerSeq' = rt.seq
           /\ m_nextTimeout_ms' =
                 IF bd.ret THEN RefreshNearestTimer(bd.timers)
                 ELSE IF it.kind = "rep" /\ rt.called
                      THEN RefreshNearestTimer(rt.timers)
                      ELSE m_nextTimeout_ms
           /\ tmFired' = fired
           /\ tmCanc' = IF rt.called /\ b # 0
                        THEN [tmCanc EXCEPT ![b] = CancNote(b, fired)]
                        ELSE tmCanc
           /\ lastCancel' =
                 IF rt.called /\ b # 0
                 THEN CancelCall(b, rt.timers, rt.reps,
                        IF it.kind = "rep" THEN RefreshNearestTimer(rt.timers)
                        ELSE m_nextTimeout_ms, fired)
                 ELSE NoCancel
           /\ it' = nxt
           /\ itDangling' = (nxt # NoEntry /\ nxt \notin bd.timers)
    /\ UNCHANGED <<now, m_exit, tpc, passNow, tmSt, tmId, tmAt, tmIval>>

\* handleTimeoutTimers: the while loop ends at end() or at an entry that is
\* not due, then refreshNearestTimer()
HandleTimeoutTimersEnd ==
    /\ tpc = "pass"
    /\ ~itDangling
    /\ it = NoEntry \/ ~Due(it, passNow)
    /\ m_nextTimeout_ms' = RefreshNearestTimer(m_timers)
    /\ tpc' = "idle"
    /\ passNow' = 0
    /\ it' = NoEntry
    /\ lastCancel' = NoCancel
    /\ UNCHANGED <<now, m_exit, m_timers, m_timerReps, m_timerSeq, itDangling,
                   tmSt, tmId, tmAt, tmIval, tmFired, tmCanc>>

\* handleTimeoutTimers goes on with an iterator whose entry a task erased
\* through cancel: the behaviour is undefined. The freed node may still read
\* as the due entry it was, so that its task is invoked before the erase of
\* a freed node brings the process down ("fire"); the process may fault at
\* once ("crash"); or the node may read as not due and the pass ends
\* ("end"). The task of a repeating timer's entry is repeatableTimeout(tr),
\* whose lookup in m_timerReps fails, so that the user's task is not invoked
HandleTimeoutTimersDangling(o) ==
    /\ tpc = "pass"
    /\ itDangling
    /\ it' = NoEntry
    /\ itDangling' = FALSE
    /\ passNow' = 0
    /\ tpc' = IF o = "end" THEN "idle" ELSE "crashed"
    /\ tmFired' = IF o = "fire" /\ it.kind = "user"
                  THEN [tmFired EXCEPT ![it.who] = @ + 1]
                  ELSE tmFired
    /\ lastCancel' = NoCancel
    /\ m_nextTimeout_ms' = IF o = "end" THEN RefreshNearestTimer(m_timers)
                           ELSE m_nextTimeout_ms
    /\ UNCHANGED <<now, m_exit, m_timers, m_timerReps, m_timerSeq, tmSt, tmId,
                   tmAt, tmIval, tmCanc>>

\* EventBase::exit: m_exit = true
ExitCall ==
    /\ ~m_exit
    /\ tpc \in {"idle", "pass"}
    /\ m_exit' = TRUE
    /\ lastCancel' = NoCancel
    /\ UNCHANGED <<now, m_timers, m_timerReps, m_timerSeq, m_nextTimeout_ms,
                   tpc, passNow, it, itDangling, tmSt, tmId, tmAt, tmIval,
                   tmFired, tmCanc>>

\* EventsImp::loop once m_exit is seen: both timer maps are cleared and the
\* last loopOnce(0) finds no timer
LoopExit ==
    /\ tpc = "idle"
    /\ m_exit
    /\ m_timers' = {}
    /\ m_timerReps' = {}
    /\ m_nextTimeout_ms' = kNoTimer
    /\ tpc' = "exited"
    /\ lastCancel' = NoCancel
    /\ UNCHANGED <<now, m_exit, m_timerSeq, passNow, it, itDangling, tmSt,
                   tmId, tmAt, tmIval, tmFired, tmCanc>>

\* the clock advances
Tick ==
    /\ now < MaxTime
    /\ tpc # "crashed"
    /\ now' = now + 1
    /\ lastCancel' = NoCancel
    /\ UNCHANGED <<m_exit, m_timers, m_timerReps, m_timerSeq,
                   m_nextTimeout_ms, tpc, passNow, it, itDangling, tmSt, tmId,
                   tmAt, tmIval, tmFired, tmCanc>>

\* m_nextTimeout_ms is not initialised by the constructor of EventsImp: any
\* int may be read from it until the first refreshNearestTimer
UninitTimeouts == {-1, 0, kNoTimer}

\* an EventBase whose loop thread is in loop(); the loop thread's handlers
\* register and cancel timers between two passes
InitTM ==
    /\ InitQueue
    /\ m_capacity = 0
    /\ pc = [c \in Consumers |-> "idle"]
    /\ InitPoolIdle
    /\ pipeBytes = 0
    /\ scpc = [p \in Producers |-> "idle"]
    /\ scTask = [p \in Producers |-> 0]
    /\ scDone = {}
    /\ atLast = {}
    /\ now = 1
    /\ m_exit = FALSE
    /\ m_timers = {}
    /\ m_timerReps = {}
    /\ m_timerSeq = 0
    /\ m_nextTimeout_ms \in UninitTimeouts
    /\ tpc = "idle"
    /\ passNow = 0
    /\ it = NoEntry
    /\ itDangling = FALSE
    /\ tmSt = [i \in TimerIx |-> "none"]
    /\ tmId = [i \in TimerIx |-> InvalidId]
    /\ tmAt = [i \in TimerIx |-> 0]
    /\ tmIval = [i \in TimerIx |-> 0]
    /\ tmFired = [i \in TimerIx |-> 0]
    /\ tmCanc = [i \in TimerIx |-> "no"]
    /\ lastCancel = NoCancel
    /\ InitConnIdle
    /\ InitPureIdle

NextTM ==
    \/ (\E i \in TimerIx, ts \in Deadlines, iv \in Intervals :
            /\ tpc \in {"idle", "exited"}
            /\ RunAt(i, ts, iv)
            /\ UNCHANGED <<queueVars, poolVars, ebVars, connVars>>)
       /\ UNCHANGED pureVars
    \/ (\E j \in TimerIx :
            /\ tpc \in {"idle", "exited"}
            /\ Cancel(j)
            /\ UNCHANGED <<queueVars, poolVars, ebVars, connVars>>)
       /\ UNCHANGED pureVars
    \/ HandleTimeoutTimersBegin /\ UNCHANGED <<queueVars, poolVars, ebVars, connVars>> /\ UNCHANGED pureVars
    \/ (\E b \in {0} \cup TimerIx :
            HandleTimeoutTimersStep(b) /\ UNCHANGED <<queueVars, poolVars, ebVars, connVars>>)
       /\ UNCHANGED pureVars
    \/ HandleTimeoutTimersEnd /\ UNCHANGED <<queueVars, poolVars, ebVars, connVars>> /\ UNCHANGED pureVars
    \/ (\E o \in {"fire", "crash", "end"} :
            HandleTimeoutTimersDangling(o) /\ UNCHANGED <<queueVars, poolVars, ebVars, connVars>>)
       /\ UNCHANGED pureVars
    \/ ExitCall /\ UNCHANGED <<queueVars, poolVars, ebVars, connVars>> /\ UNCHANGED pureVars
    \/ LoopExit /\ UNCHANGED <<queueVars, poolVars, ebVars, connVars>> /\ UNCHANGED pureVars
    \/ Tick /\ UNCHANGED <<queueVars, poolVars, ebVars, connVars>> /\ UNCHANGED pureVars

SpecTM == InitTM /\ [][NextTM]_vars

\* ---------------------------------------------------------------- TcpConn
\* One connection on one EventBase. Every action is one handler or one call
\* made on the loop thread between two handlers; close() may be called from
\* any thread. The callbacks of the user return without calling into the
\* connection. tpc is the position of the loop thread: "idle" between two
\* handlers, "stuck" in a handler that never returns, "exited" after loop()
\* returned, "destroyed" after ~EventsImp.

\* the timer members of EventsImp that the connection does not touch
tmRest == <<now, m_timers, m_timerReps, m_timerSeq, m_nextTimeout_ms, passNow,
            it, itDangling, tmSt, tmId, tmAt, tmIval, tmFired, tmCanc,
            lastCancel>>

\* what a read event finds in the socket: a whole frame of the codec, bytes
\* its tryDecode answers with a negative value, or the end of the stream
RxData == {"frame", "bad", "eof"}

\* values given to setReconnectInterval and to the timeout of connect
ReconnectIntervals == {-1, 0, 2}
ConnectTimeouts == {0, 1}

\* the outcomes of locking a std::mutex the thread already holds, which is
\* undefined: the thread blocks for ever, or the lock is a no-op and the
\* code goes on
Relock == {"hang", "proceed"}

\* TcpConn::attach: m_state = HAND_SHAKING, delete m_channel,
\* m_channel = new Channel(base, fd, kReadEvent | kWriteEvent)
Attach ==
    /\ c_state' = "HAND_SHAKING"
    /\ m_channel' = "open"
    /\ chAlive' = (IF m_channel = "null" THEN chAlive ELSE chAlive - 1) + 1
    /\ cycle' = cycle + 1
    /\ termCalls' = 0

\* TcpConn::_connect: a wrong state is fatal; m_state = HAND_SHAKING, attach,
\* and with timeout_ms > 0 the handshake timer is registered (runAt refuses
\* once m_exit is set)
Connect(timeout_ms) ==
    /\ c_state \in {"INVALID", "CLOSED", "FAILED"}
    /\ cycle < MaxCycles
    /\ m_connectTimeout_ms' = timeout_ms
    /\ m_connectedTime_ms' = now
    /\ Attach
    /\ timeoutArmed' = (timeout_ms > 0 /\ ~m_exit)

\* _reconnect that waits the whole interval whatever time has passed
ReconnectDelay_wholeInterval == m_reconnectInterval_ms

\* _reconnect: interval = max(m_reconnectInterval_ms - (now_ms -
\* m_connectedTime_ms), 0), the argument of runAfter
ReconnectDelay ==
    IF m_reconnectInterval_ms - (now - m_connectedTime_ms) > 0
    THEN m_reconnectInterval_ms - (now - m_connectedTime_ms) ELSE 0

\* cleanup that leaves the Channel in place when it schedules a reconnect
Cleanup_keepsChannel(mc, n) ==
    /\ c_state' = IF c_state = "HAND_SHAKING" THEN "FAILED" ELSE "CLOSED"
    /\ timeoutArmed' = FALSE
    /\ termCalls' = termCalls + 1
    /\ IF m_reconnectInterval_ms >= 0 /\ ~m_exit
       THEN /\ inReconnectSet' = TRUE
            /\ reconnectArmed' = TRUE
            /\ reconnectAt' = now + ReconnectDelay
            /\ m_channel' = mc
            /\ chAlive' = n
       ELSE /\ UNCHANGED <<inReconnectSet, reconnectArmed, reconnectAt>>
            /\ m_channel' = "null"
            /\ chAlive' = IF mc = "null" THEN n ELSE n - 1

\* TcpConn::cleanup(conn) entered with m_channel = mc and n Channel objects
\* alive: HAND_SHAKING becomes FAILED and any other state CLOSED, the
\* handshake timer is cancelled, m_stateCB is called; then either _reconnect
\* (interval >= 0 and the base has not exited: the connection enters
\* m_reconnectConns, the reconnect timer is registered, the Channel is
\* deleted) or the Channel is deleted
Cleanup(mc, n) ==
    /\ c_state' = IF c_state = "HAND_SHAKING" THEN "FAILED" ELSE "CLOSED"
    /\ timeoutArmed' = FALSE
    /\ termCalls' = termCalls + 1
    /\ IF m_reconnectInterval_ms >= 0 /\ ~m_exit
       THEN /\ inReconnectSet' = TRUE
            /\ reconnectArmed' = TRUE
            /\ reconnectAt' = now + ReconnectDelay
       ELSE UNCHANGED <<inReconnectSet, reconnectArmed, reconnectAt>>
    /\ m_channel' = "null"
    /\ chAlive' = IF mc = "null" THEN n ELSE n - 1

\* createConnection(base, fd, local, peer): attach on a new connection
ConnAttach ==
    /\ tpc = "idle"
    /\ c_state = "INVALID"
    /\ cycle < MaxCycles
    /\ Attach
    /\ UNCHANGED <<m_reconnectInterval_ms, m_connectTimeout_ms, timeoutArmed,
                   reconnectArmed, inReconnectSet, closePosted, m_exit, tpc,
                   m_connectedTime_ms, reconnectAt>>

\* createConnection(base, host, port, timeout_ms): connect on a new connection
ConnConnect(timeout_ms) ==
    /\ tpc = "idle"
    /\ c_state = "INVALID"
    /\ Connect(timeout_ms)
    /\ UNCHANGED <<m_reconnectInterval_ms, reconnectArmed, inReconnectSet,
                   closePosted, m_exit, tpc, reconnectAt>>

\* TcpConn::setReconnectInterval
SetReconnectInterval(v) ==
    /\ tpc = "idle"
    /\ m_reconnectInterval_ms # v
    /\ m_reconnectInterval_ms' = v
    /\ UNCHANGED <<c_state, m_channel, chAlive, m_connectTimeout_ms,
                   timeoutArmed, reconnectArmed, inReconnectSet, closePosted,
                   cycle, termCalls, m_exit, tpc, m_connectedTime_ms,
                   reconnectAt>>

\* write event while HAND_SHAKING: _handleWrite, _handleHandshake. poll()
\* reports POLLOUT alone (ok) or something else
HandshakeWrite(ok) ==
    /\ tpc = "idle"
    /\ c_state = "HAND_SHAKING"
    /\ m_channel = "open"
    /\ IF ok
       THEN /\ c_state' = "CONNECTED"
            /\ m_connectedTime_ms' = now
            /\ UNCHANGED <<m_channel, chAlive, timeoutArmed, reconnectArmed,
                           inReconnectSet, termCalls, reconnectAt>>
       ELSE Cleanup(m_channel, chAlive) /\ UNCHANGED m_connectedTime_ms
    /\ UNCHANGED <<m_reconnectInterval_ms, m_connectTimeout_ms, closePosted,
                   cycle, m_exit, tpc>>

\* read or error event while HAND_SHAKING: _handleRead. A failed handshake
\* ends in cleanup; a successful one goes on into the read loop of the
\* CONNECTED state, which does not return (see ReadConnected)
HandshakeRead(ok) ==
    /\ tpc = "idle"
    /\ c_state = "HAND_SHAKING"
    /\ m_channel = "open"
    /\ IF ok
       THEN /\ c_state' = "CONNECTED"
            /\ m_connectedTime_ms' = now
            /\ tpc' = "stuck"
            /\ UNCHANGED <<m_channel, chAlive, timeoutArmed, reconnectArmed,
                           inReconnectSet, termCalls, reconnectAt>>
       ELSE /\ Cleanup(m_channel, chAlive)
            /\ UNCHANGED <<tpc, m_connectedTime_ms>>
    /\ UNCHANGED <<m_reconnectInterval_ms, m_connectTimeout_ms, closePosted,
                   cycle, m_exit>>

\* read event while CONNECTED with the fd open: _handleRead calls
\* m_inputBuffer.makeRoom(), which locks the buffer's mutex and then calls
\* space(), which locks it again; and when that lock is a no-op, the branch
\* fd >= 0 reads and none of the else-if branches after it runs, so the
\* while loop goes round for as long as the state is CONNECTED. Either way
\* the handler does not return, whatever the peer has sent (d): the bytes
\* read are not added to m_inputBuffer and m_readCB is not called
ReadConnected(d) ==
    /\ tpc = "idle"
    /\ c_state = "CONNECTED"
    /\ m_channel = "open"
    /\ tpc' = "stuck"
    /\ rx' = d
    /\ UNCHANGED <<c_state, m_channel, chAlive, m_reconnectInterval_ms,
                   m_connectTimeout_ms, timeoutArmed, reconnectArmed,
                   inReconnectSet, closePosted, cycle, termCalls,
                   m_connectedTime_ms, reconnectAt, m_exit>>

\* the handshake timer fires: if the state is HAND_SHAKING,
\* conn->m_channel->close(); Channel::close sets the fd to -1 and calls
\* handleRead, _handleHandshake finds fd < 0 and calls cleanup
TimeoutFire ==
    /\ tpc = "idle"
    /\ timeoutArmed
    /\ IF c_state = "HAND_SHAKING"
       THEN Cleanup(m_channel, chAlive)
       ELSE /\ timeoutArmed' = FALSE
            /\ UNCHANGED <<c_state, m_channel, chAlive, reconnectArmed,
                           inReconnectSet, termCalls, reconnectAt>>
    /\ UNCHANGED <<m_reconnectInterval_ms, m_connectTimeout_ms, closePosted,
                   cycle, m_exit, tpc, m_connectedTime_ms>>

\* TcpConn::close: with a Channel, the closing task is handed to safeCall
CloseCall ==
    /\ tpc = "idle"
    /\ ~closePosted
    /\ m_channel # "null"
    /\ closePosted' = TRUE
    /\ UNCHANGED <<c_state, m_channel, chAlive, m_reconnectInterval_ms,
                   m_connectTimeout_ms, timeoutArmed, reconnectArmed,
                   inReconnectSet, cycle, termCalls, m_exit, tpc,
                   m_connectedTime_ms, reconnectAt>>

\* the task of close() runs: it locks m_ChannelMutex and calls
\* m_channel->close(); handleRead leads to _handleHandshake or to the read
\* loop, which lock m_ChannelMutex again on the same thread
CloseRun(o) ==
    /\ tpc = "idle"
    /\ closePosted
    /\ closePosted' = FALSE
    /\ IF m_channel = "null"
       THEN /\ o = "proceed"
            /\ UNCHANGED <<c_state, m_channel, chAlive, timeoutArmed,
                           reconnectArmed, inReconnectSet, termCalls, tpc,
                           reconnectAt>>
       ELSE IF o = "hang"
            THEN /\ m_channel' = "closed"
                 /\ tpc' = "stuck"
                 /\ UNCHANGED <<c_state, chAlive, timeoutArmed, reconnectArmed,
                                inReconnectSet, termCalls, reconnectAt>>
            ELSE /\ Cleanup(m_channel, chAlive)
                 /\ UNCHANGED tpc
    /\ UNCHANGED <<m_reconnectInterval_ms, m_connectTimeout_ms, cycle, m_exit,
                   m_connectedTime_ms>>

\* TcpConn::closeNow: m_channel = nullptr, ch->close(), delete ch. While
\* HAND_SHAKING, handleRead ends in cleanup; while CONNECTED it enters the
\* read loop, whose makeRoom() locks the buffer's mutex twice
CloseNow(o) ==
    /\ tpc = "idle"
    /\ m_channel = "open"
    /\ IF c_state = "CONNECTED" /\ o = "hang"
       THEN /\ m_channel' = "null"
            /\ tpc' = "stuck"
            /\ UNCHANGED <<c_state, chAlive, timeoutArmed, reconnectArmed,
                           inReconnectSet, termCalls, reconnectAt>>
       ELSE /\ o = "proceed"
            /\ Cleanup("null", chAlive - 1)
            /\ UNCHANGED tpc
    /\ UNCHANGED <<m_reconnectInterval_ms, m_connectTimeout_ms, closePosted,
                   cycle, m_exit, m_connectedTime_ms>>

\* the timer of _reconnect fires: the connection leaves m_reconnectConns and
\* _connect starts the next cycle
ReconnectFire ==
    /\ tpc = "idle"
    /\ reconnectArmed
    /\ reconnectAt <= now
    /\ reconnectArmed' = FALSE
    /\ inReconnectSet' = FALSE
    /\ Connect(m_connectTimeout_ms)
    /\ UNCHANGED <<m_reconnectInterval_ms, closePosted, m_exit, tpc,
                   reconnectAt>>

\* EventsImp::loop after m_exit: the timers of the connection go with
\* m_timers.clear(); m_reconnectConns is left as it is
ConnLoopExit ==
    /\ LoopExit
    /\ timeoutArmed' = FALSE
    /\ reconnectArmed' = FALSE
    /\ UNCHANGED <<c_state, m_channel, chAlive, m_reconnectInterval_ms,
                   m_connectTimeout_ms, inReconnectSet, closePosted, cycle,
                   termCalls, m_connectedTime_ms, reconnectAt>>

\* ~EventsImp: cleanup(conn) for every connection in m_reconnectConns
Teardown ==
    /\ tpc = "exited"
    /\ tpc' = "destroyed"
    /\ IF inReconnectSet
       THEN /\ c_state' = "CLOSED"
            /\ termCalls' = termCalls + 1
            /\ m_channel' = "null"
            /\ chAlive' = IF m_channel = "null" THEN chAlive ELSE chAlive - 1
            /\ UNCHANGED timeoutArmed
       ELSE UNCHANGED <<c_state, termCalls, m_channel, chAlive, timeoutArmed>>
    /\ inReconnectSet' = FALSE
    /\ UNCHANGED <<m_reconnectInterval_ms, m_connectTimeout_ms, reconnectArmed,
                   closePosted, cycle, m_exit, m_connectedTime_ms, reconnectAt>>

\* a new TcpConn and an EventBase whose loop thread is in loop()
InitConn ==
    /\ InitQueue
    /\ m_capacity = 0
    /\ pc = [c \in Consumers |-> "idle"]
    /\ InitPoolIdle
    /\ InitLoopIdle
    /\ InitPureIdle

NextConn ==
    \/ ConnAttach /\ UNCHANGED <<queueVars, poolVars, ebVars, tmRest, rx>> /\ UNCHANGED pureVars
    \/ (\E t \in ConnectTimeouts :
            ConnConnect(t) /\ UNCHANGED <<queueVars, poolVars, ebVars, tmRest, rx>>)
       /\ UNCHANGED pureVars
    \/ (\E v \in ReconnectIntervals :
            SetReconnectInterval(v) /\ UNCHANGED <<queueVars, poolVars, ebVars, tmRest, rx>>)
       /\ UNCHANGED pureVars
    \/ (\E ok \in BOOLEAN :
            HandshakeWrite(ok) /\ UNCHANGED <<queueVars, poolVars, ebVars, tmRest, rx>>)
       /\ UNCHANGED pureVars
    \/ (\E ok \in BOOLEAN :
            HandshakeRead(ok) /\ UNCHANGED <<queueVars, poolVars, ebVars, tmRest, rx>>)
       /\ UNCHANGED pureVars
    \/ (\E d \in RxData :
            ReadConnected(d) /\ UNCHANGED <<queueVars, poolVars, ebVars, tmRest>>)
       /\ UNCHANGED pureVars
    \/ TimeoutFire /\ UNCHANGED <<queueVars, poolVars, ebVars, tmRest, rx>> /\ UNCHANGED pureVars
    \/ CloseCall /\ UNCHANGED <<queueVars, poolVars, ebVars, tmRest, rx>> /\ UNCHANGED pureVars
    \/ (\E o \in Relock :
            CloseRun(o) /\ UNCHANGED <<queueVars, poolVars, ebVars, tmRest, rx>>)
       /\ UNCHANGED pureVars
    \/ (\E o \in Relock :
            CloseNow(o) /\ UNCHANGED <<queueVars, poolVars, ebVars, tmRest, rx>>)
       /\ UNCHANGED pureVars
    \/ ReconnectFire /\ UNCHANGED <<queueVars, poolVars, ebVars, tmRest, rx>> /\ UNCHANGED pureVars
    \/ ExitCall /\ UNCHANGED <<queueVars, poolVars, ebVars, connVars>> /\ UNCHANGED pureVars
    \/ ConnLoopExit /\ UNCHANGED <<queueVars, poolVars, ebVars, rx>> /\ UNCHANGED pureVars
    \/ Teardown /\ UNCHANGED <<queueVars, poolVars, ebVars, tmRest, rx>> /\ UNCHANGED pureVars
    \/ Tick /\ UNCHANGED <<queueVars, poolVars, ebVars, connVars>> /\ UNCHANGED pureVars

SpecConn == InitConn /\ [][NextConn]_vars

\* ----------------------------------------------------------------- codecs
\* a Slice is the sequence of its bytes; Slice(p, n) and consume(n)
Take(s, n) == SubSeq(s, 1, n)
Drop(s, n) == SubSeq(s, n + 1, Len(s))

\* Net::hton on an int32_t followed by appendValue: the four bytes of the
\* two's complement value, most significant first
hton(v) ==
    <<(v \div 16777216) % 256, (v \div 65536) % 256, (v \div 256) % 256, v % 256>>

\* memcpy of four bytes into an int32_t followed by Net::ntoh
ntoh(bs) ==
    LET top == IF bs[1] >= 128 THEN bs[1] - 256 ELSE bs[1]
    IN  top * 16777216 + bs[2] * 65536 + bs[3] * 256 + bs[4]

\* LineCodec::isLegalEot
isLegalEot(data) == Len(data) = 1 /\ data[1] = EOT

\* LineCodec::tryDecode: the value returned and the message
LineCodec_tryDecode(data) ==
    IF data # <<>> /\ isLegalEot(data)
    THEN [ret |-> 1, msg |-> data]
    ELSE IF \E i \in 1..Len(data) : data[i] = LF
    THEN LET i == CHOOSE k \in 1..Len(data) :
                      data[k] = LF /\ \A j \in 1..(k - 1) : data[j] # LF
         IN  IF i > 1 /\ data[i - 1] = CR
             THEN [ret |-> i, msg |-> Take(data, i - 2)]
             ELSE [ret |-> i, msg |-> Take(data, i - 1)]
    ELSE [ret |-> 0, msg |-> <<>>]

\* LineCodec::encode: ok is FALSE when it throws, out is what it appends
LineCodec_encode(msg) ==
    IF \E i \in 1..Len(msg) : msg[i] = LF
    THEN [ok |-> FALSE, out |-> <<>>]
    ELSE [ok |-> TRUE, out |-> msg \o <<CR, LF>>]

\* LengthCodec::checkMagic
checkMagic(header) == Take(header, Len(kMagic)) = kMagic

\* LengthCodec::tryDecode under the limit maxLen
LengthCodec_tryDecode(data, maxLen) ==
    IF Len(data) < kHeaderLen
    THEN [ret |-> 0, msg |-> <<>>]
    ELSE IF ~checkMagic(data)
    THEN [ret |-> kInvalidMagic, msg |-> <<>>]
    ELSE LET hostLen == ntoh(SubSeq(data, 5, 8))
         IN  IF hostLen <= 0 \/ hostLen > maxLen
             THEN [ret |-> kInvalidLength, msg |-> <<>>]
             ELSE IF Len(data) < kHeaderLen + hostLen
             THEN [ret |-> 0, msg |-> <<>>]
             ELSE [ret |-> kHeaderLen + hostLen,
                   msg |-> SubSeq(data, kHeaderLen + 1, kHeaderLen + hostLen)]

\* LengthCodec::encode under the limit maxLen
LengthCodec_encode(msg, maxLen) ==
    IF Len(msg) > maxLen \/ Len(msg) > kInt32Max
    THEN [ok |-> FALSE, out |-> <<>>]
    ELSE [ok |-> TRUE, out |-> kMagic \o hton(Len(msg)) \o msg]

\* CodecBase::tryDecode and CodecBase::encode of the codec in use
tryDecode(type, data, maxLen) ==
    IF type = "line" THEN LineCodec_tryDecode(data)
    ELSE LengthCodec_tryDecode(data, maxLen)

encode(type, msg, maxLen) ==
    IF type = "line" THEN LineCodec_encode(msg)
    ELSE LengthCodec_encode(msg, maxLen)

\* clone(): new LineCodec() and new LengthCodec(), a default-constructed codec
clone(type, maxLen) ==
    [type |-> type, max |-> IF type = "line" THEN 0 ELSE kDefaultMaxMsgLen]

\* the read callback onMsg installs: decode, deliver and consume while
\* tryDecode returns a positive length, close on a negative one
RECURSIVE DecodeLoop(_, _, _)
DecodeLoop(type, maxLen, st) ==
    LET r == tryDecode(type, st.buf, maxLen)
    IN  IF r.ret < 0
        THEN [st EXCEPT !.closed = TRUE]
        ELSE IF r.ret > 0
        THEN DecodeLoop(type, maxLen, [buf |-> Drop(st.buf, r.ret),
                                       got |-> Append(st.got, r.msg),
                                       closed |-> FALSE])
        ELSE st

\* setMaxMsgLen, before the codec is used; 0 is refused with an exception
SetMaxMsgLen(v) ==
    /\ cdType = "length"
    /\ cdSent = <<>>
    /\ m_maxMsgLen' = IF v = 0 THEN m_maxMsgLen ELSE v
    /\ cdProbe' = NoProbe
    /\ UNCHANGED <<cdType, cdBuf, cdSent, cdGot, cdClosed, cdRead, cdClone>>

\* encode(msg, buf) into the stream the peer decodes; a message encode
\* throws on is not sent
CodecEncode(msg) ==
    /\ ~cdClosed
    /\ Len(cdSent) < MaxFrames
    /\ encode(cdType, msg, m_maxMsgLen).ok
    /\ cdBuf' = cdBuf \o encode(cdType, msg, m_maxMsgLen).out
    /\ cdSent' = Append(cdSent, msg)
    /\ cdRead' = FALSE
    /\ cdProbe' = NoProbe
    /\ UNCHANGED <<cdType, m_maxMsgLen, cdGot, cdClosed, cdClone>>

\* the read callback runs on the stream that has arrived
CodecRead ==
    /\ ~cdClosed
    /\ cdBuf # <<>>
    /\ LET st == DecodeLoop(cdType, m_maxMsgLen,
                            [buf |-> cdBuf, got |-> cdGot, closed |-> FALSE])
       IN  /\ cdBuf' = st.buf
           /\ cdGot' = st.got
           /\ cdClosed' = st.closed
    /\ cdRead' = TRUE
    /\ cdProbe' = NoProbe
    /\ UNCHANGED <<cdType, m_maxMsgLen, cdSent, cdClone>>

\* tryDecode on a header a peer made up: magic right or wrong, length field
\* n, and have bytes of payload behind the header; the result depends on
\* these bytes and on the limit only, so the call is made on a codec that
\* has encoded nothing
CodecProbe(magicOk, n, have) ==
    /\ cdType = "length"
    /\ cdSent = <<>>
    /\ LET data == (IF magicOk THEN kMagic ELSE <<98, 97, 100, 84>>)
                       \o hton(n) \o [i \in 1..have |-> 97]
       IN  cdProbe' = [called |-> TRUE, magic |-> magicOk, len |-> n, have |-> have,
                       max |-> m_maxMsgLen,
                       ret |-> LengthCodec_tryDecode(data, m_maxMsgLen).ret]
    /\ UNCHANGED <<cdType, m_maxMsgLen, cdBuf, cdSent, cdGot, cdClosed, cdRead, cdClone>>

\* clone() of the codec in use, as TcpServer does for an accepted connection
CodecClone ==
    /\ cdClone' = [new |-> clone(cdType, m_maxMsgLen),
                   of |-> [type |-> cdType,
                           max |-> IF cdType = "line" THEN 0 ELSE m_maxMsgLen]]
    /\ cdProbe' = NoProbe
    /\ UNCHANGED <<cdType, m_maxMsgLen, cdBuf, cdSent, cdGot, cdClosed, cdRead>>

\* a codec of either type, as constructed
InitCodec ==
    /\ InitQueue
    /\ m_capacity = 0
    /\ pc = [c \in Consumers |-> "idle"]
    /\ InitPoolIdle
    /\ InitLoopIdle
    /\ InitBuffer
    /\ cdType \in CodecTypes
    /\ InitCodecIdle
    /\ InitIdle
    /\ hsha = [reqs |-> 0, pool |-> 0, loop |-> 0, sentIn |-> {}, skipped |-> {}]
    /\ life = [pc |-> "idle", calls |-> 0, op |-> "none", ret |-> "none",
               exited |-> FALSE]
    /\ chs = [ch |-> <<>>, poller |-> "up", handler |-> 0, reentered |-> FALSE]
    /\ cbs = [owner |-> [l \in Locks |-> 0], site |-> "none", out |-> "idle",
              act |-> "none"]
    /\ rdl = [pc |-> "idle", fd |-> -1, rd |-> "none", reads |-> 0, size |-> 0,
              idleUpdated |-> FALSE, cbCalled |-> FALSE, cleaned |-> FALSE]
    /\ snd = [chan |-> "open", writable |-> FALSE, out |-> 0, sends |-> 0,
              had |-> FALSE, how |-> "none"]
    /\ pol = [evs |-> [k \in 0..NumChannels |-> 0], m_lastActive |-> -1,
              i |-> -1, live |-> {}, late |-> {}, pc |-> "none"]
    /\ mroom = "idle"

NextCodec ==
    \/ \E v \in MaxMsgLens : SetMaxMsgLen(v)
          /\ UNCHANGED <<queueVars, poolVars, loopVars, bufVars, idleVars, laterVars>>
    \/ \E msg \in Frames : CodecEncode(msg)
          /\ UNCHANGED <<queueVars, poolVars, loopVars, bufVars, idleVars, laterVars>>
    \/ CodecRead /\ UNCHANGED <<queueVars, poolVars, loopVars, bufVars, idleVars, laterVars>>
    \/ \E magicOk \in BOOLEAN, n \in ProbeLens, have \in 0..MaxFrameLen :
          CodecProbe(magicOk, n, have)
          /\ UNCHANGED <<queueVars, poolVars, loopVars, bufVars, idleVars, laterVars>>
    \/ CodecClone /\ UNCHANGED <<queueVars, poolVars, loopVars, bufVars, idleVars, laterVars>>

SpecCodec == InitCodec /\ [][NextCodec]_vars

\* ------------------------------------------------------------------ Buffer
\* a buffer is the record of its fields m_b, m_e, m_cap and m_exp; the bytes
\* themselves play no part in the bookkeeping
Max(x, y) == IF x > y THEN x ELSE y
Min(x, y) == IF x < y THEN x ELSE y

\* Buffer::_expand
Expand(B, len) ==
    LET currentSize == B.m_e - B.m_b
        newCap == Max(B.m_exp, Max(2 * B.m_cap, currentSize + len))
    IN  [B EXCEPT !.m_e = currentSize, !.m_b = 0, !.m_cap = newCap]

\* Buffer::_moveHead
MoveHead(B) ==
    IF B.m_b = 0 THEN B
    ELSE [B EXCEPT !.m_e = B.m_e - B.m_b, !.m_b = 0]

\* Buffer::_makeRoom, the helper of append
MakeRoomUnSafe(B, len) ==
    IF B.m_e + len <= B.m_cap THEN B
    ELSE IF (B.m_e - B.m_b) + len < B.m_cap \div 2 THEN MoveHead(B)
    ELSE Expand(B, len)

\* Buffer::makeRoom(size_t len)
MakeRoomLen(B, len) ==
    IF B.m_e + len > B.m_cap
    THEN IF (B.m_e - B.m_b) + len < B.m_exp \div 2 THEN MoveHead(B)
         ELSE Expand(B, len)
    ELSE B

\* Buffer::append(const char*, size_t) and Buffer::appendUnSafe
AppendLen(B, len) ==
    IF len = 0 THEN B
    ELSE LET R == MakeRoomUnSafe(B, len) IN [R EXCEPT !.m_e = R.m_e + len]

\* Buffer::consume
ConsumeLen(B, len) ==
    IF len = 0 THEN B
    ELSE LET consumeLen == Min(len, B.m_e - B.m_b)
             R == [B EXCEPT !.m_b = B.m_b + consumeLen]
         IN  IF R.m_b = R.m_e
             THEN [R EXCEPT !.m_b = 0, !.m_e = 0, !.m_cap = 0]
             ELSE R

\* Buffer::absorb: the pair (this, other) after the call
AbsorbPair(B, O) ==
    IF O.m_b = O.m_e THEN <<B, O>>
    ELSE IF B.m_b = B.m_e
    THEN <<[B EXCEPT !.m_cap = O.m_cap, !.m_b = O.m_b, !.m_e = O.m_e],
           [O EXCEPT !.m_cap = B.m_cap, !.m_b = B.m_b, !.m_e = B.m_e]>>
    ELSE <<AppendLen(B, O.m_e - O.m_b),
           [O EXCEPT !.m_b = O.m_e, !.m_cap = 0]>>

\* the model stops appending when the buffers together end beyond MaxEnd
RECURSIVE SumEnd(_, _)
SumEnd(bs, S) ==
    IF S = {} THEN 0
    ELSE LET i == CHOOSE j \in S : TRUE IN bs[i].m_e + SumEnd(bs, S \ {i})

BufAppend(i, len) ==
    /\ buffers' = [buffers EXCEPT ![i] = AppendLen(buffers[i], len)]
    /\ resv' = [resv EXCEPT ![i] = 0]
    /\ SumEnd(buffers', Buffers) <= MaxEnd

BufConsume(i, len) ==
    /\ buffers' = [buffers EXCEPT ![i] = ConsumeLen(buffers[i], len)]
    /\ resv' = [resv EXCEPT ![i] = 0]

\* makeRoom(len): the caller may write len bytes at the pointer returned
BufMakeRoom(i, len) ==
    /\ buffers' = [buffers EXCEPT ![i] = MakeRoomLen(buffers[i], len)]
    /\ resv' = [resv EXCEPT ![i] = len]

\* Buffer::addSize with at most the bytes reserved by the makeRoom(len) before
BufAddSize(i, len) ==
    /\ len <= resv[i]
    /\ buffers' = [buffers EXCEPT ![i].m_e = @ + len]
    /\ resv' = [resv EXCEPT ![i] = 0]
    /\ SumEnd(buffers', Buffers) <= MaxEnd

\* this->absorb(other); absorbing itself returns at once
BufAbsorb(i, o) ==
    /\ buffers' = IF i = o THEN buffers
                  ELSE LET P == AbsorbPair(buffers[i], buffers[o])
                       IN  [buffers EXCEPT ![i] = P[1], ![o] = P[2]]
    /\ resv' = IF i = o THEN resv ELSE [resv EXCEPT ![i] = 0, ![o] = 0]
    /\ SumEnd(buffers', Buffers) <= MaxEnd

\* Buffer::clear
BufClear(i) ==
    /\ buffers' = [buffers EXCEPT ![i] = [@ EXCEPT !.m_b = 0, !.m_e = 0, !.m_cap = 0]]
    /\ resv' = [resv EXCEPT ![i] = 0]

\* Buffer::setExpectGrowSize
BufSetExpectGrowSize(i, sz) ==
    /\ buffers' = [buffers EXCEPT ![i].m_exp = IF sz > 0 THEN sz ELSE @]
    /\ resv' = [resv EXCEPT ![i] = 0]

\* new buffers
InitBuf ==
    /\ InitQueue
    /\ m_capacity = 0
    /\ pc = [c \in Consumers |-> "idle"]
    /\ InitPoolIdle
    /\ InitLoopIdle
    /\ cdType = "line"
    /\ InitCodecIdle
    /\ InitBuffer
    /\ InitIdle
    /\ hsha = [reqs |-> 0, pool |-> 0, loop |-> 0, sentIn |-> {}, skipped |-> {}]
    /\ life = [pc |-> "idle", calls |-> 0, op |-> "none", ret |-> "none",
               exited |-> FALSE]
    /\ chs = [ch |-> <<>>, poller |-> "up", handler |-> 0, reentered |-> FALSE]
    /\ cbs = [owner |-> [l \in Locks |-> 0], site |-> "none", out |-> "idle",
              act |-> "none"]
    /\ rdl = [pc |-> "idle", fd |-> -1, rd |-> "none", reads |-> 0, size |-> 0,
              idleUpdated |-> FALSE, cbCalled |-> FALSE, cleaned |-> FALSE]
    /\ snd = [chan |-> "open", writable |-> FALSE, out |-> 0, sends |-> 0,
              had |-> FALSE, how |-> "none"]
    /\ pol = [evs |-> [k \in 0..NumChannels |-> 0], m_lastActive |-> -1,
              i |-> -1, live |-> {}, late |-> {}, pc |-> "none"]
    /\ mroom = "idle"

NextBuf ==
    \/ \E i \in Buffers, len \in Lens : BufAppend(i, len)
          /\ UNCHANGED <<queueVars, poolVars, loopVars, codecVars, idleVars, laterVars>>
    \/ \E i \in Buffers, len \in Lens : BufConsume(i, len)
          /\ UNCHANGED <<queueVars, poolVars, loopVars, codecVars, idleVars, laterVars>>
    \/ \E i \in Buffers, len \in Lens : BufMakeRoom(i, len)
          /\ UNCHANGED <<queueVars, poolVars, loopVars, codecVars, idleVars, laterVars>>
    \/ \E i \in Buffers, len \in Lens : BufAddSize(i, len)
          /\ UNCHANGED <<queueVars, poolVars, loopVars, codecVars, idleVars, laterVars>>
    \/ \E i \in Buffers, o \in Buffers : BufAbsorb(i, o)
          /\ UNCHANGED <<queueVars, poolVars, loopVars, codecVars, idleVars, laterVars>>
    \/ \E i \in Buffers : BufClear(i)
          /\ UNCHANGED <<queueVars, poolVars, loopVars, codecVars, idleVars, laterVars>>
    \/ \E i \in Buffers, sz \in GrowSizes : BufSetExpectGrowSize(i, sz)
          /\ UNCHANGED <<queueVars, poolVars, loopVars, codecVars, idleVars, laterVars>>

SpecBuf == InitBuf /\ [][NextBuf]_vars

\* ------------------------------------------- PollerEpoll: one batch of events
pollRestVars == <<baseVars, sendVars, roomVars>>

NextPoll ==
    LET \* PollerEpoll::removeChannel: erase from m_liveChannels, then the
        \* scan for(i = m_lastActive; i >= 0; --i) that clears the first
        \* slot holding ch and breaks
        removeChannel(P, ch) ==
            LET found == {k \in 0..P.m_lastActive : P.evs[k] = ch}
                top == CHOOSE k \in found : \A j \in found : j <= k
            IN  [P EXCEPT !.live = @ \ {ch},
                          !.evs = IF found = {} THEN @
                                  ELSE [@ EXCEPT ![top] = 0]]
    IN
    \* PollerEpoll::PollerEpoll leaves m_activeEvs uninitialised: every slot
    \* reads as some value; the channels are made and added
    \/ \E g \in [0..NumChannels -> {0} \cup Channels] :
          /\ pol.pc = "none"
          /\ pol' = [pol EXCEPT !.evs = g, !.live = Channels, !.pc = "idle"]
          /\ UNCHANGED pollRestVars
    \* loopOnce: epoll_wait fills the first n slots with ready channels, each
    \* once, and returns n; the for loop starts at n - 1
    \/ \E n \in 0..NumChannels : \E b \in [0..(n - 1) -> pol.live] :
          /\ pol.pc = "idle"
          /\ \A j, k \in 0..(n - 1) : j # k => b[j] # b[k]
          /\ pol' = [pol EXCEPT
                       !.evs = [k \in 0..NumChannels |->
                                   IF k < n THEN b[k] ELSE pol.evs[k]],
                       !.m_lastActive = n,
                       !.i = n - 1,
                       !.pc = IF n > 0 THEN "dispatch" ELSE "idle"]
          /\ UNCHANGED pollRestVars
    \* loopOnce, one turn of the for loop: a null slot is skipped, otherwise
    \* the channel's handler is called; the handler returns (c = 0) or
    \* closes a channel, its own or another one
    \/ \E c \in {0} \cup pol.live :
          /\ pol.pc = "dispatch"
          /\ LET ch == pol.evs[pol.i]
                 P1 == [pol EXCEPT !.i = @ - 1,
                                   !.pc = IF pol.i = 0 THEN "idle" ELSE @]
             IN  IF ch = 0
                 THEN c = 0 /\ pol' = P1
                 ELSE IF ch \notin pol.live
                 THEN c = 0 /\ pol' = [P1 EXCEPT !.late = @ \cup {ch}]
                 ELSE pol' = IF c = 0 THEN P1 ELSE removeChannel(P1, c)
          /\ UNCHANGED pollRestVars
    \* between two batches a channel is closed
    \/ \E c \in pol.live :
          /\ pol.pc = "idle"
          /\ pol' = removeChannel(pol, c)
          /\ UNCHANGED pollRestVars

SpecPoll == InitConn /\ [][NextPoll]_vars

\* ------------------------------------------------------ Buffer::makeRoom()
roomRestVars == <<queueVars, poolVars, loopVars, codecVars, idleVars, hshaVars,
                  lifeVars, chanVars, cbVars, readVars, sendVars, pollVars>>

\* one thread uses the buffers; a thread that hangs makes no further call
NextMR ==
    \/ \E i \in Buffers, len \in Lens :
          /\ mroom # "hung"
          /\ BufAppend(i, len)
          /\ mroom' = "idle"
          /\ UNCHANGED roomRestVars
    \/ \E i \in Buffers, len \in Lens :
          /\ mroom # "hung"
          /\ BufConsume(i, len)
          /\ mroom' = "idle"
          /\ UNCHANGED roomRestVars
    \* makeRoom(): lock_guard on *m_mutex, then space(), which takes a
    \* lock_guard on *m_mutex again on the same thread: the thread hangs, or
    \* goes on to if(space() < m_exp) _expand(0)
    \/ \E i \in Buffers, o \in Relock :
          /\ mroom # "hung"
          /\ IF o = "hang"
             THEN mroom' = "hung" /\ UNCHANGED bufVars
             ELSE /\ mroom' = "returned"
                  /\ buffers' = [buffers EXCEPT ![i] =
                                    IF @.m_cap - @.m_e < @.m_exp
                                    THEN Expand(@, 0) ELSE @]
                  /\ resv' = [resv EXCEPT ![i] = 0]
          /\ UNCHANGED roomRestVars

SpecMR == InitBuf /\ [][NextMR]_vars

\* --------------------------------------------------- EventBase: idle handles
\* the while loop of callIdles over one list: a front node that has timed
\* out gets the timestamp now_s, moves to the end and has its callback called
RECURSIVE IdleLoop(_, _, _, _)
IdleLoop(connList, idle_s, now_s, called) ==
    IF connList = <<>> \/ Head(connList).lastUpdatedTimestamp_s + idle_s > now_s
    THEN [connList |-> connList, called |-> called]
    ELSE IdleLoop(Tail(connList)
                      \o <<[Head(connList) EXCEPT !.lastUpdatedTimestamp_s = now_s]>>,
                  idle_s, now_s, called \cup {Head(connList).conn})

\* EventsImp::registerIdle for a connection that has no idle handle yet
RegisterIdle(c, idle_s) ==
    /\ idleLog[c].kind = "none"
    /\ IF ~m_idleEnabled
       THEN m_idleEnabled' = TRUE /\ idleTimer' = nowMs + kIdleCheck_ms
       ELSE UNCHANGED <<m_idleEnabled, idleTimer>>
    /\ m_idleConns' = [m_idleConns EXCEPT ![idle_s] =
           Append(@, [conn |-> c, lastUpdatedTimestamp_s |-> nowMs \div 1000])]
    /\ idleLog' = [idleLog EXCEPT ![c] =
           [idle_s |-> idle_s, since |-> nowMs, kind |-> "registered", calls |-> 0]]
    /\ UNCHANGED nowMs

\* EventsImp::unregisterIdle
UnregisterIdle(c) ==
    /\ idleLog[c].kind \in {"registered", "called", "updated"}
    /\ m_idleConns' = [m_idleConns EXCEPT ![idleLog[c].idle_s] =
           SelectSeq(@, LAMBDA n : n.conn # c)]
    /\ idleLog' = [idleLog EXCEPT ![c].kind = "unregistered"]
    /\ UNCHANGED <<nowMs, m_idleEnabled, idleTimer>>

\* updateIdle that sets the timestamp and leaves the node where it is
UpdateIdle_noSplice(c) ==
    /\ idleLog[c].kind \in {"registered", "called", "updated"}
    /\ m_idleConns' = [m_idleConns EXCEPT ![idleLog[c].idle_s] =
           [k \in 1..Len(@) |->
               IF @[k].conn = c
               THEN [conn |-> c, lastUpdatedTimestamp_s |-> nowMs \div 1000]
               ELSE @[k]]]
    /\ idleLog' = [idleLog EXCEPT ![c].kind = "updated"]
    /\ UNCHANGED <<nowMs, m_idleEnabled, idleTimer>>

\* EventsImp::updateIdle
UpdateIdle(c) ==
    /\ idleLog[c].kind \in {"registered", "called", "updated"}
    /\ m_idleConns' = [m_idleConns EXCEPT ![idleLog[c].idle_s] =
           SelectSeq(@, LAMBDA n : n.conn # c)
               \o <<[conn |-> c, lastUpdatedTimestamp_s |-> nowMs \div 1000]>>]
    /\ idleLog' = [idleLog EXCEPT ![c].kind = "updated"]
    /\ UNCHANGED <<nowMs, m_idleEnabled, idleTimer>>

\* the timer task of callIdles, run by the loop when its timer is due: every
\* list is walked, then the task registers itself again one second later
CallIdles_breakAtEqual ==
    /\ m_idleEnabled
    /\ nowMs >= idleTimer
    /\ LET now_s == nowMs \div 1000
           R == [s \in IdleTimeouts |-> IdleLoop(m_idleConns[s], s + 1, now_s, {})]
           called == UNION {R[s].called : s \in IdleTimeouts}
       IN  /\ m_idleConns' = [s \in IdleTimeouts |-> R[s].connList]
           /\ idleLog' = [c \in IdleConns |->
                  IF c \in called
                  THEN [idleLog[c] EXCEPT !.since = nowMs, !.kind = "called",
                                          !.calls = @ + 1]
                  ELSE idleLog[c]]
    /\ idleTimer' = nowMs + kIdleCheck_ms
    /\ UNCHANGED <<nowMs, m_idleEnabled>>

CallIdles ==
    /\ m_idleEnabled
    /\ nowMs >= idleTimer
    /\ LET now_s == nowMs \div 1000
           R == [s \in IdleTimeouts |-> IdleLoop(m_idleConns[s], s, now_s, {})]
           called == UNION {R[s].called : s \in IdleTimeouts}
       IN  /\ m_idleConns' = [s \in IdleTimeouts |-> R[s].connList]
           /\ idleLog' = [c \in IdleConns |->
                  IF c \in called
                  THEN [idleLog[c] EXCEPT !.since = nowMs, !.kind = "called",
                                          !.calls = @ + 1]
                  ELSE idleLog[c]]
    /\ idleTimer' = nowMs + kIdleCheck_ms
    /\ UNCHANGED <<nowMs, m_idleEnabled>>

\* utils::timeMilli() advances to the next instant the model looks at: the
\* first, the second and the last millisecond of every second. The loop runs
\* the timer task as soon as it is due, so the clock does not pass a due timer
IdleTick ==
    /\ m_idleEnabled => nowMs < idleTimer
    /\ \E t \in IdleInstants :
          /\ t > nowMs
          /\ \A u \in IdleInstants : u > nowMs => t <= u
          /\ nowMs' = t
    /\ UNCHANGED <<m_idleEnabled, m_idleConns, idleTimer, idleLog>>

\* an EventBase whose loop is running; handlers register, update and
\* unregister idle handles
NextIdle ==
    \/ \E c \in IdleConns, s \in IdleTimeouts : RegisterIdle(c, s)
          /\ UNCHANGED <<queueVars, poolVars, loopVars, codecVars, bufVars, laterVars>>
    \/ \E c \in IdleConns : UnregisterIdle(c)
          /\ UNCHANGED <<queueVars, poolVars, loopVars, codecVars, bufVars, laterVars>>
    \/ \E c \in IdleConns : UpdateIdle(c)
          /\ UNCHANGED <<queueVars, poolVars, loopVars, codecVars, bufVars, laterVars>>
    \/ CallIdles /\ UNCHANGED <<queueVars, poolVars, loopVars, codecVars, bufVars, laterVars>>
    \/ IdleTick
          /\ UNCHANGED <<queueVars, poolVars, loopVars, codecVars, bufVars, laterVars>>

SpecIdle == InitConn /\ [][NextIdle]_vars

\* the loop is told to exit while connections hold idle handles
NextIX ==
    \/ ~m_exit /\ NextIdle
    \* exit() was called and loop() has left its while loop:
    \* m_idleConns.clear() destroys every list and every node; the handles
    \* (list pointer and iterator) stay with their connections in m_idleIds
    \/ /\ ~m_exit
       /\ m_exit' = TRUE
       /\ m_idleConns' = [s \in IdleTimeouts |-> <<>>]
       /\ UNCHANGED <<nowMs, m_idleEnabled, idleTimer, idleLog>>
       /\ UNCHANGED <<queueVars, poolVars, ebVars, tpc, tmRest, connVars,
                      codecVars, bufVars, laterVars>>
    \* addIdleCB on a connection of the loop that has exited
    \/ \E c \in IdleConns, s \in IdleTimeouts :
          /\ m_exit
          /\ RegisterIdle(c, s)
          /\ UNCHANGED <<queueVars, poolVars, loopVars, codecVars, bufVars,
                         laterVars>>
    \* after the exit a connection that holds a handle is cleaned up
    \* (cleanup: handleUnregisterIdle for every id in m_idleIds) or reads
    \* (_handleRead: handleUpdateIdle). A handle whose node is gone is used
    \* all the same: erase or splice through a dangling iterator
    \/ \E c \in IdleConns :
          /\ m_exit
          /\ idleLog[c].kind \in {"registered", "called", "updated"}
          /\ IF \E k \in 1..Len(m_idleConns[idleLog[c].idle_s]) :
                   m_idleConns[idleLog[c].idle_s][k].conn = c
             THEN UpdateIdle(c) \/ UnregisterIdle(c)
             ELSE /\ idleLog' = [idleLog EXCEPT ![c].kind = "dangling"]
                  /\ UNCHANGED <<nowMs, m_idleEnabled, m_idleConns, idleTimer>>
          /\ UNCHANGED <<queueVars, poolVars, loopVars, codecVars, bufVars,
                         laterVars>>

SpecIX == InitConn /\ [][NextIX]_vars

\* ------------------------------------------------------------------- HSHA
\* the message callback HSHA::onMsg installs on the server is called with a
\* frame of the connection: the frame is copied and the handler is handed to
\* the worker pool
HshaMsg ==
    /\ tpc = "idle"
    /\ cycle > 0
    /\ hsha.reqs < MaxRequests
    /\ hsha' = [hsha EXCEPT !.reqs = @ + 1, !.pool = @ + 1]

\* a worker runs the task: cb(conn, input) returns output, and a non-empty
\* output is handed to the server's loop with safeCall
HshaWork(output) ==
    /\ hsha.pool > 0
    /\ hsha' = [hsha EXCEPT !.pool = @ - 1,
                            !.loop = IF output > 0 THEN @ + 1 ELSE @]

\* the loop runs the task of safeCall: sendMsg when the state is CONNECTED
HshaRespond_noCheck ==
    /\ tpc = "idle"
    /\ hsha.loop > 0
    /\ hsha' = [hsha EXCEPT !.loop = @ - 1, !.sentIn = @ \cup {c_state}]

HshaRespond ==
    /\ tpc = "idle"
    /\ hsha.loop > 0
    /\ hsha' = IF c_state = "CONNECTED"
               THEN [hsha EXCEPT !.loop = @ - 1, !.sentIn = @ \cup {c_state}]
               ELSE [hsha EXCEPT !.loop = @ - 1, !.skipped = @ \cup {c_state}]

\* one connection of an HSHA server: the connection's own life and the
\* requests it hands to the pool
NextHSHA ==
    \/ NextConn
    \/ HshaMsg /\ UNCHANGED <<queueVars, poolVars, loopVars, codecVars, bufVars, idleVars, postVars>>
    \/ \E output \in 0..1 : HshaWork(output)
          /\ UNCHANGED <<queueVars, poolVars, loopVars, codecVars, bufVars, idleVars, postVars>>
    \/ HshaRespond /\ UNCHANGED <<queueVars, poolVars, loopVars, codecVars, bufVars, idleVars, postVars>>

SpecHSHA == InitConn /\ [][NextHSHA]_vars

\* ------------------------------------------------------ SafeQueue properties

\* C6: exit() removes no item. Once the queue has exited, the items taken so
\* far followed by the items still queued are exactly the items pushed, in
\* push order; every popWait that takes an item takes the head; and every
\* push made after exit() is refused.
C6_ExitKeepsItems ==
    [][ /\ (q_isExited' => popped' \o m_items' = pushed')
        /\ (q_isExited /\ popped' # popped
              => popped' = Append(popped, Head(m_items)))
        /\ (q_isExited => \A t \in TaskIds :
              pushRet'[t] # pushRet[t] => pushRet'[t] = "false") ]_vars

\* C6 witness: after exit() returned, a popWait returned an item pushed before
\* exit(), the queue has been drained and a later push was refused
C6_Witness ==
    /\ q_isExited /\ xpc = "idle"
    /\ m_items = <<>> /\ Len(popped) >= 2
    /\ lastPop.ret = "true" /\ lastPop.exited
    /\ \E t \in TaskIds : pushRet[t] = "false"

\* C7: push refuses (returns false, queue unchanged) when the queue has exited
\* or when capacity > 0 and size >= capacity; otherwise it appends at the tail
\* and returns true. With capacity c > 0 the size never exceeds c.
C7_PushContract ==
    /\ [](m_capacity > 0 => Len(m_items) <= m_capacity)
    /\ [][ \A t \in TaskIds : (t \in attempted' /\ t \notin attempted) =>
             IF q_isExited \/ (m_capacity > 0 /\ Len(m_items) >= m_capacity)
             THEN m_items' = m_items /\ pushRet'[t] = "false"
             ELSE m_items' = Append(m_items, t) /\ pushRet'[t] = "true" ]_vars

\* C7 witness: an open bounded queue is full and a push was refused
C7_Witness ==
    /\ ~q_isExited
    /\ m_capacity = 2 /\ Len(m_items) = 2
    /\ \E t \in TaskIds : pushRet[t] = "false"

\* C8: no wakeup is lost. Once exit() has returned no consumer is left blocked
\* on the condition variable; while an item is queued and a consumer is
\* blocked, another consumer has been woken or is inside popWait; and
\* popWait(kWaitInfinite) returns false only when the queue has exited.
C8_NoLostWakeup ==
    /\ (q_isExited /\ xpc = "idle" => \A c \in Consumers : pc[c] # "blocked")
    /\ ((m_items # <<>> /\ \E c \in Consumers : pc[c] = "blocked")
          => \E c \in Consumers : pc[c] \in {"notified", "locked"})
    /\ (lastPop.ret = "false" /\ lastPop.w = kWaitInfinite => lastPop.exited)

\* C8 witness: a consumer that blocked in popWait(kWaitInfinite) on an open
\* empty queue has been woken, and exit() has returned
C8_Witness ==
    /\ q_isExited /\ xpc = "idle" /\ attempted = {}
    /\ \E c \in Consumers : pc[c] = "notified" /\ waitArg[c] = kWaitInfinite

\* ------------------------------------------------ Channel and PollerEpoll

\* Channel::close up to its call of handleRead: with m_fd >= 0 the channel
\* is erased from m_liveChannels, ::close(m_fd) is called and m_fd is -1
ChannelClose(C) ==
    IF C.m_fd >= 0
    THEN [C EXCEPT !.live = FALSE, !.closes = @ + 1, !.m_fd = -1]
    ELSE C

\* EventsImp::init and TcpConn::attach: every channel has an open fd and was
\* added to the poller by its constructor
InitCh ==
    /\ InitQueue
    /\ pc = [c \in Consumers |-> "idle"]
    /\ InitPoolIdle
    /\ InitLoopIdle
    /\ cdType = "line"
    /\ InitCodecIdle
    /\ InitBuffer
    /\ InitIdle
    /\ hsha = [reqs |-> 0, pool |-> 0, loop |-> 0, sentIn |-> {}, skipped |-> {}]
    /\ life = [pc |-> "idle", calls |-> 0, op |-> "none", ret |-> "none",
               exited |-> FALSE]
    /\ chs = [ch |-> [c \in Channels |->
                        [m_fd |-> c + 2, live |-> TRUE, closes |-> 0,
                         st |-> "alive"]],
              poller |-> "up", handler |-> 0, reentered |-> FALSE]
    /\ cbs = [owner |-> [l \in Locks |-> 0], site |-> "none", out |-> "idle",
              act |-> "none"]
    /\ rdl = [pc |-> "idle", fd |-> -1, rd |-> "none", reads |-> 0, size |-> 0,
              idleUpdated |-> FALSE, cbCalled |-> FALSE, cleaned |-> FALSE]
    /\ snd = [chan |-> "open", writable |-> FALSE, out |-> 0, sends |-> 0,
              had |-> FALSE, how |-> "none"]
    /\ pol = [evs |-> [k \in 0..NumChannels |-> 0], m_lastActive |-> -1,
              i |-> -1, live |-> {}, late |-> {}, pc |-> "none"]
    /\ mroom = "idle"

NextCh ==
    \* TcpConn::closeNow (dying: delete ch follows) and Channel::close of a
    \* connection's channel; with m_fd >= 0 close() ends in handleRead()
    \/ \E c \in Channels \ {WakeupCh}, del \in BOOLEAN :
          /\ chs.handler = 0
          /\ chs.poller = "up"
          /\ chs.ch[c].st = "alive"
          /\ chs' = [chs EXCEPT
                       !.ch[c] = [ChannelClose(@) EXCEPT
                                    !.st = IF ~del THEN "alive"
                                           ELSE IF chs.ch[c].m_fd >= 0
                                                THEN "dying" ELSE "destroyed"],
                       !.handler = IF chs.ch[c].m_fd >= 0 THEN c ELSE 0,
                       !.reentered = FALSE]
          /\ UNCHANGED <<queueVars, poolVars, loopVars, codecVars, bufVars,
                         idleVars, hshaVars, lifeVars, tailVars>>
    \* the read callback of a connection, called from close(), calls close()
    \* on its channel again: m_fd is -1
    \/ /\ chs.handler \notin {0, WakeupCh}
       /\ ~chs.reentered
       /\ chs' = [chs EXCEPT !.ch[chs.handler] = ChannelClose(@),
                             !.reentered = TRUE]
       /\ UNCHANGED <<queueVars, poolVars, loopVars, codecVars, bufVars,
                      idleVars, hshaVars, lifeVars, tailVars>>
    \* the read callback returns into close(); the wakeup callback has read
    \* r = 0 because getFd() is -1 and has deleted its channel; closeNow
    \* deletes the channel after close()
    \/ /\ chs.handler # 0
       /\ chs' = [chs EXCEPT
                    !.ch[chs.handler].st =
                        IF chs.handler = WakeupCh \/ @ = "dying"
                        THEN "destroyed" ELSE @,
                    !.handler = 0,
                    !.reentered = FALSE]
       /\ UNCHANGED <<queueVars, poolVars, loopVars, codecVars, bufVars,
                      idleVars, hshaVars, lifeVars, tailVars>>
    \* ~EventsImp: delete m_poller. ~PollerEpoll holds m_channelMutex and
    \* calls close() on a live channel, whose removeChannel locks the same
    \* mutex again on the same thread: the thread hangs, or goes on. With no
    \* live channel left the poller is gone and ~EventsImp calls
    \* ::close(m_wakeupFds[0]), the fd of the wakeup channel
    \/ \E o \in Relock :
          /\ chs.handler = 0
          /\ chs.poller \in {"up", "tearing"}
          /\ LET live == {c \in Channels : chs.ch[c].live}
             IN  IF live = {}
                 THEN chs' = [chs EXCEPT !.poller = "gone",
                                         !.ch[WakeupCh].closes = @ + 1]
                 ELSE IF o = "hang"
                 THEN chs' = [chs EXCEPT !.poller = "hung"]
                 ELSE \E c \in live :
                        chs' = [chs EXCEPT !.poller = "tearing",
                                           !.ch[c] = ChannelClose(@),
                                           !.handler = c,
                                           !.reentered = FALSE]
          /\ UNCHANGED <<queueVars, poolVars, loopVars, codecVars, bufVars,
                         idleVars, hshaVars, lifeVars, tailVars>>

SpecCh == InitCh /\ [][NextCh]_vars

\* ---------------------------------------- TcpConn: locks around callbacks

NextCB ==
    \* the loop thread reaches a place that invokes a user callback: the
    \* state callback in _handleHandshake under m_stateMutex; the readable
    \* (or message) and the state callback in cleanup, the readable callback
    \* in _handleRead and the writable callback in _handleWrite under
    \* m_callBacksMutex. The lock_guard is taken and the callback is called
    \/ \E s \in {[site |-> "_handleHandshake.m_stateCB", lock |-> "m_stateMutex"],
                 [site |-> "cleanup.m_readCB", lock |-> "m_callBacksMutex"],
                 [site |-> "cleanup.m_stateCB", lock |-> "m_callBacksMutex"],
                 [site |-> "_handleRead.m_readCB", lock |-> "m_callBacksMutex"],
                 [site |-> "_handleWrite.m_writeCB", lock |-> "m_callBacksMutex"]} :
          /\ cbs.out = "idle"
          /\ cbs.owner[s.lock] = 0
          /\ cbs' = [cbs EXCEPT !.owner[s.lock] = 1, !.site = s.site,
                                !.out = "inCB", !.act = "none"]
          /\ UNCHANGED <<queueVars, poolVars, loopVars, codecVars, bufVars,
                         idleVars, hshaVars, lifeVars, chanVars, readVars, restVars>>
    \* the callback calls getState(), a callback setter or close() on its
    \* connection: each takes its mutex for one read or write. Locking a
    \* mutex the thread holds is undefined: it hangs or goes on
    \/ \E a \in {[act |-> "getState", lock |-> "m_stateMutex"],
                 [act |-> "onState", lock |-> "m_callBacksMutex"],
                 [act |-> "close", lock |-> "m_ChannelMutex"]}, o \in Relock :
          /\ cbs.out = "inCB"
          /\ cbs.act = "none"
          /\ cbs.owner[a.lock] # 2
          /\ cbs' = [cbs EXCEPT !.act = a.act,
                                !.out = IF cbs.owner[a.lock] = 1 /\ o = "hang"
                                        THEN "hung" ELSE @]
          /\ UNCHANGED <<queueVars, poolVars, loopVars, codecVars, bufVars,
                         idleVars, hshaVars, lifeVars, chanVars, readVars, restVars>>
    \* the callback returns and the lock_guard of the place is released
    \/ /\ cbs.out = "inCB"
       /\ cbs' = [cbs EXCEPT !.owner = [l \in Locks |-> IF @[l] = 1 THEN 0 ELSE @[l]],
                             !.site = "none", !.out = "idle"]
       /\ UNCHANGED <<queueVars, poolVars, loopVars, codecVars, bufVars,
                      idleVars, hshaVars, lifeVars, chanVars, readVars, restVars>>
    \* another thread in getState(), a setter or close(): lock, unlock
    \/ \E l \in Locks :
          /\ cbs.owner[l] \in {0, 2}
          /\ cbs' = [cbs EXCEPT !.owner[l] = 2 - @]
          /\ UNCHANGED <<queueVars, poolVars, loopVars, codecVars, bufVars,
                         idleVars, hshaVars, lifeVars, chanVars, readVars, restVars>>

SpecCB == InitConn /\ [][NextCB]_vars

\* ------------------------------------- TcpConn::_handleRead, the read loop

NextRd ==
    \* a read event on a CONNECTED connection whose channel has an open fd;
    \* m_inputBuffer holds what the user has left in it
    \/ \E sz \in 0..1 :
          /\ rdl.pc = "idle"
          /\ rdl' = [rdl EXCEPT !.pc = "loop", !.fd = 3, !.size = sz]
          /\ UNCHANGED <<queueVars, poolVars, loopVars, codecVars, bufVars,
                         idleVars, hshaVars, lifeVars, chanVars, cbVars, restVars>>
    \* one round of while(getState() == CONNECTED): makeRoom() locks the
    \* buffer's mutex and calls space(), which locks it again (hangs or goes
    \* on). With fd >= 0 the branch if(fd >= 0) reads, and the branches for
    \* EINTR, EAGAIN, end of file, error and data are all else-branches of
    \* it: nothing is done with rd. With fd == -1 rd is 0 and the fourth
    \* branch calls cleanup and leaves the loop
    \/ \E o \in Relock, r \in {"data", "eof", "EAGAIN", "EINTR", "error"} :
          /\ rdl.pc = "loop"
          /\ rdl.reads < MaxReads
          /\ rdl' = IF o = "hang" THEN [rdl EXCEPT !.pc = "hung"]
                    ELSE IF rdl.fd >= 0
                    THEN [rdl EXCEPT !.rd = r, !.reads = @ + 1]
                    ELSE [rdl EXCEPT !.rd = "none", !.cleaned = TRUE,
                                     !.cbCalled = rdl.size > 0,
                                     !.pc = "returned"]
          /\ UNCHANGED <<queueVars, poolVars, loopVars, codecVars, bufVars,
                         idleVars, hshaVars, lifeVars, chanVars, cbVars, restVars>>
    \* another thread calls closeNow(): m_channel = nullptr, so the next
    \* round finds fd == -1
    \/ /\ rdl.pc = "loop"
       /\ rdl.fd >= 0
       /\ rdl' = [rdl EXCEPT !.fd = -1]
       /\ UNCHANGED <<queueVars, poolVars, loopVars, codecVars, bufVars,
                      idleVars, hshaVars, lifeVars, chanVars, cbVars, restVars>>

SpecRd == InitConn /\ [][NextRd]_vars

\* -------------------------------------- TcpConn::send and _handleWrite

\* TcpConn::_send(buf, len) on a channel: [n, arm], the bytes written and
\* whether write interest was armed. Nothing is written for len = 0 or
\* fd < 0. Otherwise write is called until all is written ("done"), until
\* it reports EAGAIN, where enableWrite(true) is called, or until it
\* reports another error; EINTR is retried
SendResults(chan, len) ==
    IF len = 0 \/ chan # "open"
    THEN {[n |-> 0, arm |-> FALSE, how |-> "nothing"]}
    ELSE {[n |-> len, arm |-> FALSE, how |-> "done"]}
         \cup {[n |-> k, arm |-> TRUE, how |-> "EAGAIN"] : k \in 0..(len - 1)}
         \cup {[n |-> k, arm |-> FALSE, how |-> "error"] : k \in 0..(len - 1)}

NextSend ==
    \* send(const char* buf, size_t len): without a Channel the bytes are
    \* dropped; with an empty output buffer _send is tried; what is left is
    \* appended to m_outputBuffer
    \/ \E len \in 1..MaxSendLen :
          \E r \in SendResults(snd.chan, IF snd.out = 0 THEN len ELSE 0) :
             /\ snd.sends < MaxSends
             /\ snd' = IF snd.chan = "null"
                       THEN [snd EXCEPT !.sends = @ + 1, !.had = FALSE,
                                        !.how = "dropped"]
                       ELSE [snd EXCEPT !.sends = @ + 1, !.had = TRUE,
                                        !.how = r.how,
                                        !.out = @ + (len - r.n),
                                        !.writable = @ \/ r.arm]
             /\ UNCHANGED <<baseVars, pollVars, roomVars>>
    \* send(Buffer& buf): with write interest on, the bytes are absorbed
    \* into m_outputBuffer; otherwise _send is tried and what is left is
    \* absorbed and enableWrite(true) is called
    \/ \E len \in 1..MaxSendLen :
          \E r \in SendResults(snd.chan, IF snd.writable THEN 0 ELSE len) :
             /\ snd.sends < MaxSends
             /\ snd' = IF snd.chan = "null"
                       THEN [snd EXCEPT !.sends = @ + 1, !.had = FALSE,
                                        !.how = "dropped"]
                       ELSE [snd EXCEPT !.sends = @ + 1, !.had = TRUE,
                                        !.how = r.how,
                                        !.out = @ + (len - r.n),
                                        !.writable = @ \/ r.arm \/ len > r.n]
             /\ UNCHANGED <<baseVars, pollVars, roomVars>>
    \* a write event on a CONNECTED connection, _handleWrite: _send of the
    \* output buffer, consume, and enableWrite(false) once it is empty
    \/ \E r \in SendResults(snd.chan, snd.out) :
          /\ snd.chan = "open"
          /\ snd.writable
          /\ snd' = [snd EXCEPT !.out = @ - r.n,
                                !.writable = snd.out - r.n > 0]
          /\ UNCHANGED <<baseVars, pollVars, roomVars>>
    \* Channel::close sets the fd to -1; cleanup or closeNow deletes the
    \* channel
    \/ /\ snd.chan # "null"
       /\ snd' = [snd EXCEPT !.chan = IF @ = "open" THEN "closed" ELSE "null",
                             !.writable = IF snd.chan = "open" THEN @ ELSE FALSE]
       /\ UNCHANGED <<baseVars, pollVars, roomVars>>

SpecSend == InitConn /\ [][NextSend]_vars

\* ----------------------------------------------------- ThreadPool properties

AllWorkersStopped == \A c \in Consumers : pc[c] = "stopped"
Accepted == {t \in TaskIds : pushRet[t] = "true"}

\* C4 (as claimed): after exit() new tasks are refused, and every task that
\* addTask accepted has been executed by the time the workers have stopped.
C4_ExitDrains ==
    /\ [](AllWorkersStopped => \A t \in Accepted : execCount[t] >= 1)
    /\ [][ (p_isExited /\ xpc = "idle") => \A t \in TaskIds :
             (t \in attempted' /\ t \notin attempted) => pushRet'[t] = "false" ]_vars

\* C5 (as claimed): the number of task executions is exactly the number of
\* accepted tasks: no task runs twice, and once the workers have stopped
\* every accepted task has run once.
C5_ExactlyOnce ==
    /\ \A t \in TaskIds : execCount[t] <= 1
    /\ \A t \in TaskIds : execCount[t] = 1 => t \in Accepted
    /\ (AllWorkersStopped => \A t \in Accepted : execCount[t] = 1)

\* ------------------------------------------------------ EventBase properties

\* safeCall(t) has made its call of m_tasks.push
Posted(t) == pushRet[t] # "none"

\* C1 (as claimed): a task handed to safeCall is never dropped and never run
\* twice, whatever the capacity of the task queue: from its push in safeCall
\* on, the task is waiting in m_tasks, is held by the wakeup handler or has
\* been invoked, and no task is invoked more than once.
C1_SafeCallRuns ==
    /\ \A t \in TaskIds : execCount[t] <= 1
    /\ \A t \in TaskIds : Posted(t) =>
          \/ \E k \in 1..Len(m_items) : m_items[k] = t
          \/ curTask[LoopThread] = t
          \/ execCount[t] = 1

\* C9 (as claimed): a task whose timer was cancelled before the task had been
\* invoked is never invoked.
C9_CancelledNeverFires ==
    \A i \in TimerIx : tmCanc[i] = "early" => tmFired[i] = 0

\* C10 (as claimed): a repeating timer that is registered, not cancelled and
\* whose loop runs has been invoked once for each deadline before the one
\* it is waiting for, and it is waiting for the deadline t0 + n * I after n
\* invocations: between two passes its next one-shot is in m_timers.
C10_RepeatingFires ==
    \A i \in TimerIx :
        (tmSt[i] = "live" /\ tmIval[i] > 0 /\ tmCanc[i] = "no"
           /\ ~m_exit /\ tpc = "idle")
        => \E e \in m_timers :
              e.who = i /\ e.key[1] = tmAt[i] + tmFired[i] * tmIval[i]

\* -------------------------------------------------------- TcpConn properties

\* C2 (as claimed): in every connect cycle the state callback is invoked
\* exactly once for the terminal transition: never more than once in a
\* cycle, and once when the connection has ended FAILED or CLOSED.
C2_OneTerminalCallback ==
    /\ termCalls <= 1
    /\ (tpc # "stuck" /\ c_state \in {"FAILED", "CLOSED"} => termCalls = 1)

\* C3: whenever the loop thread is not inside a handler, the connection has
\* exactly one Channel if its state is HAND_SHAKING or CONNECTED and no
\* Channel if its state is INVALID, CLOSED or FAILED.
C3_ChannelMatchesState ==
    tpc # "stuck" =>
        IF c_state \in {"HAND_SHAKING", "CONNECTED"}
        THEN m_channel = "open" /\ chAlive = 1
        ELSE m_channel = "null" /\ chAlive = 0

\* C3 witness: a connection that failed, was cleaned up and reconnected is
\* CONNECTED in its second cycle with its one Channel, between two handlers
C3_Witness ==
    /\ tpc = "idle"
    /\ cycle = 2
    /\ c_state = "CONNECTED"
    /\ m_channel = "open" /\ chAlive = 1

\* an entry with the id is in the one-shot map T or in the descriptor map R
HasEntry(T, R, id) == (\E e \in T : e.key = id) \/ (\E r \in R : r.key = id)

C12_RepeatingCancelled ==
    /\ [](\A i \in TimerIx : (tmIval[i] > 0 /\ tmCanc[i] # "no") =>
            /\ ~\E r \in m_timerReps : r.who = i
            /\ ~\E e \in m_timers : e.who = i)
    /\ [][\A i \in TimerIx : (tmIval[i] > 0 /\ tmCanc[i] # "no") =>
            tmFired'[i] = tmFired[i]]_vars

\* cancel has just returned true for a repeating timer whose one-shot was
\* scheduled at the call
C12_Witness ==
    /\ lastCancel.ret = "true"
    /\ tmIval[lastCancel.who] > 0
    /\ \E e \in lastCancel.timers : e.who = lastCancel.who /\ e.kind = "rep"
    /\ \E r \in lastCancel.reps : r.who = lastCancel.who

\* C13: loop() leaves the while loop only with m_exit set and only between
\* two loopOnce calls; it then runs one loopOnce(0), in which the wakeup
\* handler runs at most once, and returns; when it has returned, every task
\* accepted by a safeCall call that had returned when that loopOnce began has
\* been invoked once; m_exit stays set under further exit() calls, which
\* bring no task to run after the return; and once exit() has been called
\* loop() does return.
C13_ExitDrainsOnce ==
    /\ [](tpc \in {"last", "lastH", "exited"} => m_exit)
    /\ [](tpc = "exited" => \A t \in atLast : execCount[t] = 1)
    /\ [][/\ m_exit => m_exit'
          /\ tpc' = "last" => tpc = "idle" \/ tpc = "last"
          /\ tpc = "last" => tpc' \in {"last", "lastH", "exited"}
          /\ tpc = "lastH" => tpc' \in {"lastH", "exited"}
          /\ tpc = "exited" => tpc' = "exited" /\ execCount' = execCount]_vars
    /\ (m_exit ~> tpc = "exited")

\* the wakeup handler of the last loopOnce(0) holds a task whose safeCall
\* call had returned before that loopOnce began, while a second exit() call
\* is under way
C13_Witness ==
    /\ tpc = "lastH"
    /\ pc[LoopThread] = "run"
    /\ curTask[LoopThread] \in atLast
    /\ \E p \in Producers : scpc[p] = "wakeup" /\ scTask[p] = 0

\* C14: close() on a connection with a Channel only posts a task, and the
\* step in which the loop runs that task with the Channel still there ends
\* with the connection CLOSED (from CONNECTED) or FAILED (from HAND_SHAKING),
\* the state callback called and the handler returned.
C14_CloseTaskCloses ==
    [][/\ (~closePosted /\ closePosted') =>
            /\ m_channel # "null"
            /\ c_state' = c_state /\ m_channel' = m_channel
            /\ termCalls' = termCalls
       /\ (closePosted /\ ~closePosted' /\ m_channel # "null") =>
            /\ c_state = "CONNECTED" => c_state' = "CLOSED"
            /\ c_state = "HAND_SHAKING" => c_state' = "FAILED"
            /\ c_state \in {"CONNECTED", "HAND_SHAKING"} =>
                  termCalls' = termCalls + 1 /\ tpc' = "idle"]_vars

Terminal == {"FAILED", "CLOSED"}

Max0(x) == IF x > 0 THEN x ELSE 0

\* C15: while loop() has not returned, the connection is in the reconnect
\* set exactly while the timer of _reconnect is pending, and then it is
\* FAILED or CLOSED without a Channel; a connection that reaches FAILED or
\* CLOSED with an interval >= 0 before exit() enters the set with the timer
\* due max(0, interval - (now - m_connectedTime_ms)) ms later; and it leaves
\* the set, while the loop runs, only at or after that time and into
\* HAND_SHAKING with the connect timeout it was first given.
C15_ReconnectWindow ==
    /\ [](tpc \notin {"exited", "destroyed"} =>
            /\ inReconnectSet <=> reconnectArmed
            /\ inReconnectSet => c_state \in Terminal /\ m_channel = "null")
    /\ [][(c_state \notin Terminal /\ c_state' \in Terminal
              /\ m_reconnectInterval_ms >= 0 /\ ~m_exit) =>
            /\ inReconnectSet' /\ ~inReconnectSet
            /\ reconnectAt' = now + Max0(m_reconnectInterval_ms
                                           - (now - m_connectedTime_ms))]_vars
    /\ [][(inReconnectSet /\ ~inReconnectSet' /\ tpc' # "destroyed") =>
            /\ now >= reconnectAt
            /\ c_state' = "HAND_SHAKING"
            /\ m_channel' = "open"
            /\ m_connectTimeout_ms' = m_connectTimeout_ms]_vars

\* the connection has left the reconnect set for its second connect cycle
\* after a wait that the time since the connect had shortened
C15_Witness ==
    /\ cycle = 2
    /\ c_state = "HAND_SHAKING"
    /\ ~inReconnectSet
    /\ m_reconnectInterval_ms = 2
    /\ reconnectAt = 3
    /\ m_connectedTime_ms = 3
    /\ m_connectTimeout_ms = 1

\* C16: once the read handler has run on bytes that tryDecode answers with
\* a negative value, the connection is CLOSED, the state callback has been
\* called and the handler has returned.
C16_DecodeErrorCloses ==
    rx = "bad" => c_state = "CLOSED" /\ termCalls = 1 /\ tpc # "stuck"

\* -------------------------------------------------------- codec properties
\* C17: LengthCodec::tryDecode answers a header that carries the right magic
\* and a length n with n <= 0 or n > the maximum message length with a
\* negative value, so the frame is told apart from an incomplete one (0) and
\* the read callback closes the connection.
C17_InvalidLengthIsNegative ==
    (cdProbe.called /\ cdProbe.magic
        /\ (cdProbe.len <= 0 \/ cdProbe.len > cdProbe.max)) => cdProbe.ret < 0

\* C18: for either codec, once the read callback has run on the
\* concatenation of the frames encode accepted, the frames delivered are
\* exactly the frames sent, in order, and the stream is consumed whole.
C18_RoundTrip ==
    cdRead => (cdGot = cdSent /\ cdBuf = <<>> /\ ~cdClosed)

\* C19: the codec clone() returns has the type of the codec it was called on
\* and the same parameters; a LengthCodec clone has the original's maximum
\* message length.
C19_CloneKeepsParameters ==
    cdClone.new.type # "none" => cdClone.new = cdClone.of

\* ------------------------------------------------------- Buffer properties
\* C20: whatever sequence of append, consume, makeRoom(len) followed by
\* addSize of at most len, absorb and clear has been applied, every buffer
\* has 0 <= m_b <= m_e <= m_cap.
C20_BufferInvariant ==
    \A i \in Buffers :
        /\ 0 <= buffers[i].m_b
        /\ buffers[i].m_b <= buffers[i].m_e
        /\ buffers[i].m_e <= buffers[i].m_cap

\* C21: after makeRoom(n) with n > 0 has returned, and until the next call on
\* the buffer, at least n bytes are writable behind m_e: m_cap - m_e >= n.
C21_ReserveMakesRoom ==
    \A i \in Buffers :
        resv[i] > 0 => buffers[i].m_cap - buffers[i].m_e >= resv[i]

C23_ResponseOnlyWhenConnected ==
    hsha.sentIn \subseteq {"CONNECTED"}

C23_Witness ==
    /\ hsha.sentIn = {"CONNECTED"}
    /\ hsha.skipped # {}

\* C24: a task that throws inside a worker never ends that worker: the
\* worker is back at the loop condition after the task, a worker stops only
\* once the pool has exited, and while the pool has not exited every accepted
\* task is in the queue, held by a worker or has been invoked.
C24_ThrowKeepsWorker ==
    /\ [][\A c \in Consumers : (pc[c] = "run" /\ pc'[c] # "run") =>
                                    pc'[c] = "loopCheck"]_vars
    /\ [](~p_isExited => /\ \A c \in Consumers : pc[c] # "stopped"
                         /\ \A t \in Accepted :
                               \/ \E k \in 1..Len(m_items) : m_items[k] = t
                               \/ \E c \in Consumers : curTask[c] = t
                               \/ execCount[t] = 1)

\* a worker has invoked the throwing task and, after it, the next task of
\* the queue, and the pool has not exited
C24_Witness ==
    /\ ~p_isExited
    /\ \E t \in TaskIds \ ThrowingTasks, u \in ThrowingTasks :
          /\ popped = <<u, t>>
          /\ ranBy[u] = 1 /\ execCount[u] = 1
          /\ ranBy[t] = 1 /\ execCount[t] = 1

\* C25: on a started pool, join() called after exit() returns, and when it
\* has returned no worker thread is running: join() that has passed its test
\* leads to join() returned, and in every state in which it has returned
\* every worker has left workerLoop.
C25_JoinAfterExit ==
    /\ [](life.op = "join" /\ life.ret = "returned" =>
             \A c \in Consumers : pc[c] \in {"stopped", "nothread"})
    /\ (life.pc = "join" ~> (life.op = "join" /\ life.ret = "returned"))

\* join() was called after exit() had returned and has returned; a task was
\* invoked, and the last popWait returned false to a worker because of exit
C25_Witness ==
    /\ life.op = "join" /\ life.ret = "returned" /\ life.exited
    /\ AllWorkersStopped
    /\ execCount[1] = 1
    /\ lastPop.ret = "false" /\ lastPop.exited /\ lastPop.w = kWaitInfinite

\* C27 (as claimed): start() called on a pool on which exit() has returned
\* throws std::logic_error and makes no worker thread, whether or not the
\* pool had been started before.
C27_StartAfterExitThrows ==
    [][(life'.op = "start" /\ life'.calls = life.calls + 1
          /\ p_isExited /\ xpc = "idle")
       => (life'.ret = "logic_error" /\ pc' = pc)]_vars

\* C28 (as claimed): the destructor of a pool completes without throwing in
\* every state of the pool: the logic_error of join() never leaves it.
C28_DestructorNeverThrows == life.op = "dtor" => life.ret # "terminate"

\* C26 (as claimed): for every channel, across close() calls, re-entry of
\* close() from its handler, destruction and the teardown of the poller, the
\* fd is closed exactly once and the registration is removed: ::close is
\* never called twice on the fd, and it has been called once and the channel
\* is out of m_liveChannels when the channel is destroyed or the teardown has
\* come to its end.
C26_FdClosedOnce ==
    \A c \in Channels :
        /\ chs.ch[c].closes <= 1
        /\ (chs.ch[c].st = "destroyed" \/ chs.poller \in {"gone", "hung"}) =>
              (chs.ch[c].closes = 1 /\ ~chs.ch[c].live)

\* C29 (as claimed): no lock of the connection is held by the loop thread
\* while a user callback runs, so a callback that calls getState(), a
\* callback setter or close() on its own connection returns.
C29_NoLockInCallback ==
    /\ cbs.out # "hung"
    /\ cbs.out = "inCB" => \A l \in Locks : cbs.owner[l] # 1

\* C30 (as claimed): the read handler of a CONNECTED connection terminates:
\* it never hangs, and once a read has reported EAGAIN the handler has
\* updated the idle handles, has called the readable callback if the input
\* buffer is not empty, and has left the loop.
C30_ReadHandlerTerminates ==
    /\ rdl.pc # "hung"
    /\ rdl.rd = "EAGAIN" =>
          /\ rdl.pc = "returned"
          /\ rdl.idleUpdated
          /\ (rdl.size > 0 => rdl.cbCalled)

\* C31 (as claimed): when a read on a CONNECTED connection with a valid fd
\* has returned 0 bytes or failed with an error other than EINTR and EAGAIN,
\* cleanup has run (the state is CLOSED, the state callback was called) and
\* the handler has left the loop.
C31_PeerCloseCleansUp ==
    rdl.rd \in {"eof", "error"} => (rdl.cleaned /\ rdl.pc = "returned")

\* C32 (as claimed): whenever a send on a connection that has a Channel
\* returns with bytes left in the output buffer, write interest is armed on
\* the channel.
C32_ResidualArmsWrite ==
    [][(snd'.sends = snd.sends + 1 /\ snd'.had /\ snd'.out > 0)
         => snd'.writable]_vars

\* C33: in a firing pass a due entry is erased from m_timers before its task
\* is invoked: a task that calls cancel with its own id while it runs does
\* not find its entry in the map, and cancel returns false.
C33_ErasedBeforeInvoke ==
    [][\A i \in TimerIx :
         (tmFired'[i] = tmFired[i] + 1 /\ lastCancel'.who = i) =>
            /\ lastCancel'.ret = "false"
            /\ \A e \in lastCancel'.timers : e.who # i]_vars

\* a one-shot task has been invoked in a pass and has called cancel with
\* its own id for the first time, which returned false
C33_Witness ==
    /\ tpc = "pass"
    /\ lastCancel.who # 0
    /\ tmIval[lastCancel.who] = 0
    /\ lastCancel.fired = 1 /\ tmFired[lastCancel.who] = 1
    /\ ~lastCancel.again
    /\ lastCancel.ret = "false"
    /\ m_timers # {}

\* C38 (as claimed): when a task invoked in a firing pass cancels another
\* timer that is due in the same pass, the pass goes on: it does not bring
\* the process down, no task is invoked after its timer was cancelled, and
\* when the pass ends no entry that was due in it is left in m_timers.
C38_CancelInPass ==
    [][tpc = "pass" =>
         /\ tpc' # "crashed"
         /\ \A i \in TimerIx : tmFired'[i] > tmFired[i] => tmCanc[i] = "no"
         /\ tpc' = "idle" => \A e \in m_timers' : e.key[1] > passNow]_vars

\* C34: the loop invokes the tasks injected through safeCall in the order in
\* which push put them on the task queue: at every moment the tasks invoked
\* so far are the first n tasks pushed, each invoked once, the task the
\* wakeup handler holds is the next one pushed, and the queue holds the
\* rest in push order.
C34_SafeCallFifo ==
    /\ \A t \in TaskIds : execCount[t] <= 1
    /\ \E n \in 0..Len(pushed) :
          /\ {t \in TaskIds : execCount[t] > 0} = {pushed[k] : k \in 1..n}
          /\ IF curTask[LoopThread] # 0
             THEN /\ n < Len(pushed) /\ curTask[LoopThread] = pushed[n + 1]
                  /\ m_items = SubSeq(pushed, n + 2, Len(pushed))
             ELSE m_items = SubSeq(pushed, n + 1, Len(pushed))

\* three tasks were pushed in an order other than that of their ids, the
\* first two have been taken and invoked in push order and the third is
\* still queued
C34_Witness ==
    /\ Len(pushed) = 3
    /\ pushed[1] > pushed[2]
    /\ popped = <<pushed[1], pushed[2]>>
    /\ execCount[pushed[1]] = 1 /\ execCount[pushed[2]] = 1
    /\ m_items = <<pushed[3]>>
    /\ m_capacity # 1

C37_TeardownTerminates ==
    /\ chs.poller # "hung"
    /\ chs.poller = "tearing" => \A c \in Channels : chs.ch[c].closes <= 1
    /\ chs.poller = "gone" => \A c \in Channels : ~chs.ch[c].live

\* C40 (as claimed): no Buffer operation locks the buffer's mutex while it
\* holds it, so makeRoom() called on a buffer no other thread is using
\* returns.
C40_MakeRoomReturns == mroom # "hung"

\* C35 (as claimed): once a handler of a batch has closed a channel, no
\* handler of that channel is called later in the batch, whatever the size
\* of the batch and whatever earlier batches left in m_activeEvs.
C35_ClosedNotDispatched == pol.late = {}

\* C39 (as claimed): whenever updateIdle or unregisterIdle is applied to a
\* handle a connection holds, the node of the handle is in its list: while
\* the loop runs every handle held has its node, and after the loop has
\* exited no handle whose node is gone is used.
C39_IdleHandleValid ==
    /\ \A c \in IdleConns : idleLog[c].kind # "dangling"
    /\ ~m_exit =>
          \A c \in IdleConns :
              idleLog[c].kind \in {"registered", "called", "updated"} =>
                 \E k \in 1..Len(m_idleConns[idleLog[c].idle_s]) :
                    m_idleConns[idleLog[c].idle_s][k].conn = c

====
